---- MODULE Spec2Model ----
(***************************************************************************)
(* bamboo-employee-map: the local geocoder (BambooGeocoder) of             *)
(* src/src/content.js and the grouping of employees by geocoded location.  *)
(*                                                                         *)
(* A JavaScript string is a sequence of characters; a character is a       *)
(* one-element TLA+ string ("E'" and "e'" stand for U+00C9 and U+00E9).    *)
(* A coordinate is an integer number of 1/10000 degrees.                   *)
(***************************************************************************)
EXTENDS Integers, Sequences, FiniteSets, TLC

\* ------------------------------------------------------------------------
\* Characters
\* ------------------------------------------------------------------------

Upper ==
  <<"A","B","C","D","E","F","G","H","I","J","K","L","M",
    "N","O","P","Q","R","S","T","U","V","W","X","Y","Z">>

Lower ==
  <<"a","b","c","d","e","f","g","h","i","j","k","l","m",
    "n","o","p","q","r","s","t","u","v","w","x","y","z">>

DigitChars == {"0","1","2","3","4","5","6","7","8","9"}

Range(f) == { f[i] : i \in DOMAIN f }

IndexOf(seq, c) == CHOOSE i \in DOMAIN seq : seq[i] = c

UpperChars == Range(Upper)
LowerChars == Range(Lower)

\* String.prototype.toLowerCase as a table: A-Z and U+00C9
LowerOf ==
  [c \in UpperChars \cup {"E'"} |->
     IF c = "E'" THEN "e'" ELSE Lower[IndexOf(Upper, c)]]

\* String.prototype.toLowerCase, one character
ToLowerChar(c) == IF c \in DOMAIN LowerOf THEN LowerOf[c] ELSE c

\* .normalize('NFD').replace(/[\u0300-\u036f]/g, ''), one character: the
\* decomposition of an accented letter is its base letter plus a combining
\* mark, and the mark is removed
StripDiacritic(c) ==
  IF c = "e'" THEN "e"
  ELSE IF c = "E'" THEN "E"
  ELSE c

\* the regular expression class \s, which is also what trim() removes
IsSpace(c) == c \in {" ", "\t"}

\* the class [a-z0-9\s]
IsKeptChar(c) == c \in LowerChars \/ c \in DigitChars \/ IsSpace(c)

\* the class [,\-]
IsDelimiter(c) == c \in {",", "-"}

\* ------------------------------------------------------------------------
\* String helpers
\* ------------------------------------------------------------------------

MapSeq(s, Op(_)) == [i \in DOMAIN s |-> Op(s[i])]

ToLowerCase(s) == MapSeq(s, ToLowerChar)

RECURSIVE SkipSpaces(_, _)
\* \s* matched greedily from position i: the position after the spaces
SkipSpaces(s, i) ==
  IF i <= Len(s) /\ IsSpace(s[i]) THEN SkipSpaces(s, i + 1) ELSE i

RECURSIVE LastNonSpace(_, _)
LastNonSpace(s, j) ==
  IF j >= 1 /\ IsSpace(s[j]) THEN LastNonSpace(s, j - 1) ELSE j

\* String.prototype.trim
Trim(s) ==
  LET a == SkipSpaces(s, 1)
      b == LastNonSpace(s, Len(s))
  IN IF a > b THEN <<>> ELSE SubSeq(s, a, b)

RECURSIVE CollapseFrom(_, _)
CollapseFrom(s, i) ==
  IF i > Len(s) THEN <<>>
  ELSE IF IsSpace(s[i]) THEN <<" ">> \o CollapseFrom(s, SkipSpaces(s, i))
  ELSE <<s[i]>> \o CollapseFrom(s, i + 1)

\* str.replace(/\s+/g, ' ')
CollapseSpaces(s) == CollapseFrom(s, 1)

\* ------------------------------------------------------------------------
\* BambooGeocoder.normalize
\* ------------------------------------------------------------------------

\* normalize with trim() applied before the characters are removed
NormalizeTrimmingFirst(str) ==
  IF str = <<>> THEN <<>>
  ELSE SelectSeq(MapSeq(Trim(ToLowerCase(str)), StripDiacritic), IsKeptChar)

\* normalize without the removal of /[^a-z0-9\s]/g
NormalizeKeepingPunctuation(str) ==
  IF str = <<>> THEN <<>>
  ELSE Trim(MapSeq(ToLowerCase(str), StripDiacritic))

normalize(str) ==
  IF str = <<>> THEN <<>>
  ELSE Trim(SelectSeq(MapSeq(ToLowerCase(str), StripDiacritic), IsKeptChar))

\* ------------------------------------------------------------------------
\* The removePatterns of parseLocation.  A pattern is a sequence of elements:
\*   ws   \s*          hy   -?          lit  a word, matched ignoring case
\*   bos  ^            eos  $
\* ------------------------------------------------------------------------

Ws == [k |-> "ws", w |-> <<>>]
Hy == [k |-> "hy", w |-> <<>>]
Bos == [k |-> "bos", w |-> <<>>]
Eos == [k |-> "eos", w |-> <<>>]
Lit(word) == [k |-> "lit", w |-> word]

WordWork == <<"w","o","r","k">>
WordFrom == <<"f","r","o","m">>
WordHome == <<"h","o","m","e">>
WordWfh == <<"w","f","h">>
WordOffice == <<"o","f","f","i","c","e">>
WordRemote == <<"r","e","m","o","t","e">>

removePatterns ==
  << <<Ws, Hy, Ws, Lit(WordWork), Ws, Lit(WordFrom), Ws, Lit(WordHome), Ws>>,
     <<Ws, Hy, Ws, Lit(WordWfh), Ws>>,
     <<Ws, Hy, Ws, Lit(WordHome), Ws, Lit(WordOffice), Ws>>,
     <<Ws, Hy, Ws, Lit(WordOffice), Ws>>,
     <<Bos, Ws, Lit(WordRemote), Ws, Hy, Ws>>,
     <<Ws, Hy, Ws, Lit(WordRemote), Ws, Eos>> >>

\* the word w stands at position i of s, ignoring case (flag i)
LitAt(s, i, w) ==
  /\ i + Len(w) - 1 <= Len(s)
  /\ \A n \in 1..Len(w) : ToLowerChar(s[i + n - 1]) = w[n]

RECURSIVE MatchFrom(_, _, _, _)
\* The elements e.. of pat matched at position i of s: the position after the
\* match, or 0 when there is none.  Spaces, the hyphen and the first letter of
\* a word are disjoint classes, so the greedy match is the only one.
MatchFrom(pat, s, i, e) ==
  IF e > Len(pat) THEN i
  ELSE LET el == pat[e] IN
    CASE el.k = "ws"  -> MatchFrom(pat, s, SkipSpaces(s, i), e + 1)
      [] el.k = "hy"  -> MatchFrom(pat, s, IF i <= Len(s) /\ s[i] = "-" THEN i + 1 ELSE i, e + 1)
      [] el.k = "lit" -> IF LitAt(s, i, el.w) THEN MatchFrom(pat, s, i + Len(el.w), e + 1) ELSE 0
      [] el.k = "bos" -> IF i = 1 THEN MatchFrom(pat, s, i, e + 1) ELSE 0
      [] el.k = "eos" -> IF i = Len(s) + 1 THEN MatchFrom(pat, s, i, e + 1) ELSE 0

RECURSIVE ReplaceFrom(_, _, _)
ReplaceFrom(pat, s, i) ==
  IF i > Len(s) THEN <<>>
  ELSE LET j == MatchFrom(pat, s, i, 1) IN
    IF j > 0 THEN <<" ">> \o ReplaceFrom(pat, s, j)
    ELSE <<s[i]>> \o ReplaceFrom(pat, s, i + 1)

\* str.replace(pattern, ' ') with the flag g: every match, leftmost first
ReplacePattern(pat, s) == ReplaceFrom(pat, s, 1)

RECURSIVE RemoveAll(_, _, _)
\* for (const pattern of removePatterns) str = str.replace(pattern, ' ')
RemoveAll(pats, s, n) ==
  IF n > Len(pats) THEN s ELSE RemoveAll(pats, ReplacePattern(pats[n], s), n + 1)

\* ------------------------------------------------------------------------
\* BambooGeocoder.parseLocation
\* ------------------------------------------------------------------------

RECURSIVE SkipDelimiters(_, _)
SkipDelimiters(s, i) ==
  IF i <= Len(s) /\ IsDelimiter(s[i]) THEN SkipDelimiters(s, i + 1) ELSE i

RECURSIVE SplitFrom(_, _, _)
SplitFrom(s, i, cur) ==
  IF i > Len(s) THEN <<cur>>
  ELSE IF IsDelimiter(s[i]) THEN <<cur>> \o SplitFrom(s, SkipDelimiters(s, i), <<>>)
  ELSE SplitFrom(s, i + 1, Append(cur, s[i]))

\* str.split(/[,\-]+/)
Split(s) == SplitFrom(s, 1, <<>>)

NonEmpty(p) == p # <<>>

\* the value null of parseLocation
NoParse == [isNull |-> TRUE, original |-> <<>>, parts |-> <<>>]

\* str after the patterns are removed and the spaces collapsed, with the
\* fallback to the trimmed input when nothing is left
Cleaned(locationStr) ==
  LET str == Trim(CollapseSpaces(RemoveAll(removePatterns, Trim(locationStr), 1)))
  IN IF str = <<>> THEN Trim(locationStr) ELSE str

Parts(str) == SelectSeq(MapSeq(Split(str), Trim), NonEmpty)

\* parseLocation returning the whole trimmed string when no part is left
ParseWholeWhenNoParts(locationStr) ==
  IF locationStr = <<>> THEN NoParse
  ELSE LET parts == Parts(Cleaned(locationStr)) IN
    [isNull |-> FALSE, original |-> locationStr,
     parts |-> IF parts = <<>> THEN <<Cleaned(locationStr)>> ELSE parts]

parseLocation(locationStr) ==
  IF locationStr = <<>> THEN NoParse
  ELSE LET parts == Parts(Cleaned(locationStr)) IN
    IF parts = <<>> THEN NoParse
    ELSE [isNull |-> FALSE, original |-> locationStr, parts |-> parts]

\* ------------------------------------------------------------------------
\* The gazetteer document data/cities.json that BambooGeocoder.init loads:
\* countries and the states of US, CA and AU, each {name, code, lat, lng}.
\* The entries are the places the scenarios of the specification name, and
\* places that share a code across tiers (CA, NT).  Coordinates are in
\* 1/10000 degrees and none lies on a rounding tie of toFixed(2).
\* ------------------------------------------------------------------------

StrCalifornia == <<"C","a","l","i","f","o","r","n","i","a">>
StrCA == <<"C","A">>
StrUtah == <<"U","t","a","h">>
StrUT == <<"U","T">>
StrIowa == <<"I","o","w","a">>
StrIA == <<"I","A">>
StrOntario == <<"O","n","t","a","r","i","o">>
StrON == <<"O","N">>
StrNorthwestTerritories == <<"N","o","r","t","h","w","e","s","t"," ","T","e","r","r","i","t","o","r","i","e","s">>
StrNT == <<"N","T">>
StrNorthernTerritory == <<"N","o","r","t","h","e","r","n"," ","T","e","r","r","i","t","o","r","y">>
StrArgentina == <<"A","r","g","e","n","t","i","n","a">>
StrAR == <<"A","R">>
StrCanada == <<"C","a","n","a","d","a">>
StrReunion == <<"R","e'","u","n","i","o","n">>
StrRE == <<"R","E">>
StrTimorLeste == <<"T","i","m","o","r","-","L","e","s","t","e">>
StrTL == <<"T","L">>
SuffixUnitedStates == <<","," ","U","n","i","t","e","d"," ","S","t","a","t","e","s">>
SuffixCanada == <<","," ","C","a","n","a","d","a">>
SuffixAustralia == <<","," ","A","u","s","t","r","a","l","i","a">>

Entry(name, code, lat, lng) == [name |-> name, code |-> code, lat |-> lat, lng |-> lng]

Cities ==
  [ countries |->
      << Entry(StrArgentina, StrAR, -384161, -636167),
         Entry(StrCanada, StrCA, 561304, -1063468),
         Entry(StrReunion, StrRE, -211151, 555364),
         Entry(StrTimorLeste, StrTL, -88742, 1257275) >>,
    states |->
      [ US |-> << Entry(StrCalifornia, StrCA, 377749, -1224194),
                  Entry(StrUtah, StrUT, 377751, -1224193),
                  Entry(StrIowa, StrIA, 377712, -1224171) >>,
        CA |-> << Entry(StrOntario, StrON, 512538, -853232),
                  Entry(StrNorthwestTerritories, StrNT, 648255, -1248457) >>,
        AU |-> << Entry(StrNorthernTerritory, StrNT, -194914, 1327551) >> ] ]

\* the value of s.code of an entry written without the field code; no
\* string equals it
NoCode == <<"undefined">>
HasCode(e) == e.code # NoCode

\* a document written without the field countries
CitiesWithoutCountries == [states |-> Cities.states]
HasCountries(doc) == "countries" \in DOMAIN doc

\* a document whose entry Utah is written without the field code
CitiesWithoutCode ==
  [Cities EXCEPT !.states.US[2] = Entry(StrUtah, NoCode, 377751, -1224193)]

\* the module variable data: "null" until the document is loaded, then the
\* document that response.json() gave
NoData == "null"
Document(d) ==
  CASE d = "noCountries" -> CitiesWithoutCountries
    [] d = "noCode" -> CitiesWithoutCode
    [] OTHER -> Cities

\* the documents data/cities.json is read as
Documents == {"cities", "noCountries", "noCode"}

\* ------------------------------------------------------------------------
\* findUSState, findCAProvince, findAUState, findCountry
\* ------------------------------------------------------------------------

AllEntries ==
  Range(Cities.countries) \cup Range(Cities.states.US)
    \cup Range(Cities.states.CA) \cup Range(Cities.states.AU)
    \cup Range(CitiesWithoutCode.states.US)

\* normalize(e.name) and e.code.toLowerCase() of every entry of the document
NormalizedName == [e \in AllEntries |-> normalize(e.name)]
LowerCode == [e \in AllEntries |-> IF HasCode(e) THEN ToLowerCase(e.code) ELSE NoCode]

\* a match on the name alone, the code ignored
EntryMatchesNameOnly(e, normalized) == NormalizedName[e] = normalized

\* the predicate of find: normalize(s.name) === normalized ||
\* s.code.toLowerCase() === normalized
EntryMatches(e, normalized) ==
  \/ NormalizedName[e] = normalized
  \/ LowerCode[e] = normalized

\* Array.prototype.find: the index of the first matching entry, 0 for undefined
FindEntry(entries, normalized) ==
  IF \E i \in DOMAIN entries : EntryMatches(entries[i], normalized)
  THEN CHOOSE i \in DOMAIN entries :
         /\ EntryMatches(entries[i], normalized)
         /\ \A j \in 1..(i - 1) : ~EntryMatches(entries[j], normalized)
  ELSE 0

findUSState(d, str) ==
  IF d = NoData \/ str = <<>> THEN 0
  ELSE FindEntry(Document(d).states.US, normalize(str))

findCAProvince(d, str) ==
  IF d = NoData \/ str = <<>> THEN 0
  ELSE FindEntry(Document(d).states.CA, normalize(str))

findAUState(d, str) ==
  IF d = NoData \/ str = <<>> THEN 0
  ELSE FindEntry(Document(d).states.AU, normalize(str))

findCountry(d, str) ==
  IF d = NoData \/ str = <<>> THEN 0
  ELSE FindEntry(Document(d).countries, normalize(str))

\* ------------------------------------------------------------------------
\* geocode: the loop over parsed.parts
\* ------------------------------------------------------------------------

\* the value null of geocode
NoResult == [isNull |-> TRUE, lat |-> 0, lng |-> 0, name |-> <<>>, displayName |-> <<>>]

Result(e, suffix) ==
  [isNull |-> FALSE, lat |-> e.lat, lng |-> e.lng,
   name |-> e.name \o suffix, displayName |-> e.name]

\* the loops swapped: every part against one tier before the next tier
SearchTierMajor(d, parts, n) ==
  LET us == { i \in DOMAIN parts : findUSState(d, parts[i]) # 0 }
      ca == { i \in DOMAIN parts : findCAProvince(d, parts[i]) # 0 }
      au == { i \in DOMAIN parts : findAUState(d, parts[i]) # 0 }
      co == { i \in DOMAIN parts : findCountry(d, parts[i]) # 0 }
      Min(S) == CHOOSE i \in S : \A j \in S : i <= j
  IN IF us # {} THEN Result(Document(d).states.US[findUSState(d, parts[Min(us)])], SuffixUnitedStates)
     ELSE IF ca # {} THEN Result(Document(d).states.CA[findCAProvince(d, parts[Min(ca)])], SuffixCanada)
     ELSE IF au # {} THEN Result(Document(d).states.AU[findAUState(d, parts[Min(au)])], SuffixAustralia)
     ELSE IF co # {} THEN Result(Document(d).countries[findCountry(d, parts[Min(co)])], <<>>)
     ELSE NoResult

RECURSIVE SearchAustraliaBeforeCanada(_, _, _)
SearchAustraliaBeforeCanada(d, parts, n) ==
  IF n > Len(parts) THEN NoResult
  ELSE LET part == parts[n]
           usState == findUSState(d, part)
           caProvince == findCAProvince(d, part)
           auState == findAUState(d, part)
           country == findCountry(d, part)
       IN IF usState # 0 THEN Result(Document(d).states.US[usState], SuffixUnitedStates)
          ELSE IF auState # 0 THEN Result(Document(d).states.AU[auState], SuffixAustralia)
          ELSE IF caProvince # 0 THEN Result(Document(d).states.CA[caProvince], SuffixCanada)
          ELSE IF country # 0 THEN Result(Document(d).countries[country], <<>>)
          ELSE SearchAustraliaBeforeCanada(d, parts, n + 1)

RECURSIVE SearchParts(_, _, _)
\* for (const part of parsed.parts) { ... break; } from part n on
SearchParts(d, parts, n) ==
  IF n > Len(parts) THEN NoResult
  ELSE LET part == parts[n]
           usState == findUSState(d, part)
           caProvince == findCAProvince(d, part)
           auState == findAUState(d, part)
           country == findCountry(d, part)
       IN IF usState # 0 THEN Result(Document(d).states.US[usState], SuffixUnitedStates)
          ELSE IF caProvince # 0 THEN Result(Document(d).states.CA[caProvince], SuffixCanada)
          ELSE IF auState # 0 THEN Result(Document(d).states.AU[auState], SuffixAustralia)
          ELSE IF country # 0 THEN Result(Document(d).countries[country], <<>>)
          ELSE SearchParts(d, parts, n + 1)

\* the predicate of find throws a TypeError on entry i: the name of the
\* entry differs, the entry has no code (s.code.toLowerCase() of undefined),
\* and no entry before it matched
FindThrows(entries, normalized) ==
  \E i \in DOMAIN entries :
    /\ ~HasCode(entries[i])
    /\ NormalizedName[entries[i]] # normalized
    /\ \A j \in 1..(i - 1) : ~EntryMatches(entries[j], normalized)

RECURSIVE SearchThrows(_, _, _)
\* the loop of geocode from part n on ends in a TypeError: thrown by the
\* predicate of a find, or by data.countries.find of a document without
\* countries
SearchThrows(d, parts, n) ==
  IF n > Len(parts) THEN FALSE
  ELSE CHOOSE throws \in
    { IF FindThrows(doc.states.US, normalized) THEN TRUE
      ELSE IF FindEntry(doc.states.US, normalized) # 0 THEN FALSE
      ELSE IF FindThrows(doc.states.CA, normalized) THEN TRUE
      ELSE IF FindEntry(doc.states.CA, normalized) # 0 THEN FALSE
      ELSE IF FindThrows(doc.states.AU, normalized) THEN TRUE
      ELSE IF FindEntry(doc.states.AU, normalized) # 0 THEN FALSE
      ELSE IF ~HasCountries(doc) THEN TRUE
      ELSE IF FindThrows(doc.countries, normalized) THEN TRUE
      ELSE IF FindEntry(doc.countries, normalized) # 0 THEN FALSE
      ELSE SearchThrows(d, parts, n + 1)
      : doc \in {Document(d)}, normalized \in {normalize(parts[n])} } : TRUE

\* ------------------------------------------------------------------------
\* Inputs
\* ------------------------------------------------------------------------

StrRemote == <<"R","e","m","o","t","e">>
StrAtlantis == <<"A","t","l","a","n","t","i","s">>
StrAtlantisLower == <<"a","t","l","a","n","t","i","s">>
StrCaPadded == <<" ","c","a"," ">>
StrCaliforniaWFH == <<"C","a","l","i","f","o","r","n","i","a"," ","-"," ","W","o","r","k"," ","F","r","o","m"," ","H","o","m","e">>
StrCaliHyphenFornia == <<"C","a","l","i","-","f","o","r","n","i","a">>
StrOntarioCommaCanada == <<"O","n","t","a","r","i","o",",","C","a","n","a","d","a">>
StrOntarioCanada == <<"O","n","t","a","r","i","o","C","a","n","a","d","a">>
StrRemoteComma == <<"R","e","m","o","t","e",",">>
StrReCommaMote == <<"R","e",",","m","o","t","e">>
StrRemoteArgentina == <<"R","e","m","o","t","e"," ","-"," ","A","r","g","e","n","t","i","n","a">>

\* the location strings a sequence of geocode calls draws from
Locations ==
  { <<>>, StrCalifornia, StrCaliforniaWFH, StrCaliHyphenFornia, StrCA, StrCaPadded,
    StrOntarioCommaCanada, StrOntarioCanada, StrRemoteComma, StrReCommaMote,
    StrAtlantis, StrAtlantisLower }

\* the number of geocode calls between two cache clears
MaxCalls == 3

\* the pieces a free-text location is put together from
Pieces ==
  { StrCA, StrOntario, StrCanada, StrNT, StrRemote,
    <<" ">>, <<",">>, <<"-">>, <<"\t">>, <<"E'">> }

MaxPieces == 3

RECURSIVE Concats(_)
Concats(n) ==
  IF n = 0 THEN {<<>>}
  ELSE LET shorter == Concats(n - 1) IN
    shorter \cup { p \o q : p \in shorter, q \in Pieces }

FreeTexts == Concats(MaxPieces)

\* the location fields of the employee records
EmployeeLocations ==
  { <<>>, StrCaliforniaWFH, StrCA, StrRemoteArgentina, StrOntario, StrAtlantis,
    StrUtah, StrIowa }

MaxEmployees == 3

StrCaliHyphenForniaWFH == <<"C","a","l","i","-","f","o","r","n","i","a"," ","-"," ","W","o","r","k"," ","F","r","o","m"," ","H","o","m","e">>

\* the strings geocoded before the employees are grouped
PriorLocations == { StrCA, StrCaliHyphenForniaWFH, StrAtlantisLower }

\* parseLocation, normalize and the loop of geocode on the strings above,
\* evaluated once
\* the name of every entry of the packaged document, as a location string
EntryNames == { e.name : e \in AllEntries }

KnownInputs == Locations \cup EmployeeLocations \cup PriorLocations \cup EntryNames
ParseTable == [s \in KnownInputs |-> parseLocation(s)]
NormalizeTable == [s \in KnownInputs |-> normalize(s)]
KnownParts == { ParseTable[s].parts : s \in KnownInputs }
SearchTable == [parts \in KnownParts |-> SearchParts("cities", parts, 1)]
FreeTextParseTable == [s \in FreeTexts |-> parseLocation(s)]

Parsed(locationStr) ==
  IF locationStr \in KnownInputs THEN ParseTable[locationStr]
  ELSE IF locationStr \in FreeTexts THEN FreeTextParseTable[locationStr]
  ELSE parseLocation(locationStr)

Normalized(locationStr) ==
  IF locationStr \in KnownInputs THEN NormalizeTable[locationStr] ELSE normalize(locationStr)

Searched(d, parts) ==
  IF d = "cities" /\ parts \in KnownParts THEN SearchTable[parts] ELSE SearchParts(d, parts, 1)

\* ------------------------------------------------------------------------
\* State
\* ------------------------------------------------------------------------

VARIABLES
  data,       \* BambooGeocoder's data: NoData or the loaded document
  cache,      \* BambooGeocoder's cache: normalized string -> result
  hist,       \* the geocode calls since the cache was last empty, in order
  parsedOut,  \* the last call of the exported parseLocation: argument, value
  grouping,   \* the last direct call of groupEmployeesByLocation
  batchOut,   \* the last direct call of the exported geocodeBatch
  page,       \* the content script's state on the directory page
  pins,       \* BambooMap's state: the pins of the last render pass
  tasks,      \* the calls that wait for the fetch of their init()
  events,     \* the log of the calls started without being awaited
  fetching    \* fetchEmployees(): the server, the loop and its requests

vars ==
  <<data, cache, hist, parsedOut, grouping, batchOut, page, pins, tasks, events, fetching>>

\* Map.prototype.has / get / set
CacheHas(c, key) == key \in DOMAIN c
CacheGet(c, key) == c[key]
CacheSet(c, key, value) ==
  [k \in DOMAIN c \cup {key} |-> IF k = key THEN value ELSE c[k]]

EmptyCache == [k \in {} |-> NoResult]

\* the cache key geocode uses
CacheKey(locationStr) == Normalized(locationStr)

\* One awaited geocode(locationStr) on geocoder state (d, c), where loadOk
\* says whether a load attempted by init() succeeds: the state after the
\* call and the call's record (its key, the parts it searched, its value,
\* and whether it was answered from the cache or by the loop).
\* (cacheKey, parsed and result are bound through one-element sets, which
\* computes each of them once.)
GeocodeCall(d, c, locationStr, loadOk) ==
  IF locationStr = <<>>
    THEN [data |-> d, cache |-> c,
          rec |-> [arg |-> locationStr, key |-> <<>>, parts |-> <<>>, ret |-> NoResult,
                   searched |-> FALSE, hit |-> FALSE, loaded |-> d # NoData]]
  ELSE CHOOSE after \in
    { LET d1 == IF d # NoData THEN d ELSE IF loadOk THEN "cities" ELSE NoData
          Rec(ret, parts, searched, hit) ==
            [arg |-> locationStr, key |-> cacheKey, parts |-> parts, ret |-> ret,
             searched |-> searched, hit |-> hit, loaded |-> d1 # NoData]
      IN IF CacheHas(c, cacheKey)
           THEN [data |-> d, cache |-> c,
                 rec |-> Rec(CacheGet(c, cacheKey), <<>>, FALSE, TRUE)]
         ELSE IF d1 = NoData
           THEN [data |-> d1, cache |-> c, rec |-> Rec(NoResult, <<>>, FALSE, FALSE)]
         ELSE CHOOSE searched \in
           { IF parsed.isNull
               THEN [data |-> d1, cache |-> c, rec |-> Rec(NoResult, <<>>, FALSE, FALSE)]
             ELSE CHOOSE stored \in
               { [data |-> d1, cache |-> CacheSet(c, cacheKey, result),
                  rec |-> Rec(result, parsed.parts, TRUE, FALSE)]
                 : result \in {Searched(d1, parsed.parts)} } : TRUE
             : parsed \in {Parsed(locationStr)} } : TRUE
      : cacheKey \in {CacheKey(locationStr)} } : TRUE

NoParsedOut == [arg |-> <<>>, out |-> NoParse, called |-> FALSE]

\* new Map() for the results of a batch
NoResults == [l \in {} |-> NoResult]

NoBatchOut == [called |-> FALSE, locations |-> <<>>, calls |-> <<>>, geocoded |-> NoResults]

NoGrouping ==
  [called |-> FALSE, employeeList |-> <<>>, calls |-> <<>>, geocoded |-> NoResults,
   groups |-> <<>>, cacheWasEmpty |-> FALSE]

\* the text of .bamboo-map-stats: empty until updateFilterCount writes
\* "<employees> employees . <locations> locations"
NoStats == [shown |-> FALSE, employees |-> 0, locations |-> 0]

\* currentFilters with no filter set
NoFilters == [name |-> <<>>, jobTitle |-> <<>>, department |-> <<>>, division |-> <<>>]

\* the filters that have a select element, in the order updateFilterDropdowns
\* fills them
SelectFilters == <<"jobTitle", "department", "division">>

\* the options of the three selects before createFilterControls(): none
NoOptions == [jobTitle |-> {}, department |-> {}, division |-> {}]

\* The content script before it runs on a page load.  stored is the item
\* 'bamboo-map-collapsed' of localStorage ("null" while there is none), which
\* outlives the page; reloaded and leftCollapsed say whether a page was
\* loaded before and how its wrapper was left; startedCollapsed is what
\* createMapUI made of the wrapper and loadedCollapsed the isCollapsed of
\* init(); expanded says whether a click has expanded the map since init()
\* ended; changes counts the filter changes; shownFilters are the filter
\* values of the updateMapWithFilters() whose pins and stats are on display;
\* threw is the error that left a handler of the page uncaught
NoPage ==
  [pc |-> "none", stored |-> "null", reloaded |-> FALSE, leftCollapsed |-> FALSE,
   startedCollapsed |-> FALSE, loadedCollapsed |-> FALSE, collapsed |-> FALSE,
   clicked |-> FALSE, expanded |-> FALSE,
   mapInitialized |-> FALSE, observer |-> FALSE, filterControls |-> FALSE,
   loaded |-> FALSE, rawEmployees |-> <<>>, allEmployeesData |-> <<>>, locationGroups |-> <<>>,
   currentFilters |-> NoFilters, options |-> NoOptions, filtered |-> <<>>, changes |-> 0,
   stats |-> NoStats, shownFilters |-> NoFilters, threw |-> "none"]

\* BambooMap before init: g and projection are null, no pin is drawn
NoPins == [ready |-> FALSE, called |-> FALSE, counts |-> <<>>, maxCount |-> 0, rendered |-> <<>>]

\* fetchEmployees() before it is called
NoFetching ==
  [pc |-> "none", server |-> <<>>, page |-> 1, hasMore |-> TRUE, allEmployees |-> <<>>,
   requests |-> <<>>, returned |-> <<>>, rejected |-> FALSE]

Init ==
  /\ data = NoData
  /\ cache = EmptyCache
  /\ hist = <<>>
  /\ parsedOut = NoParsedOut
  /\ grouping = NoGrouping
  /\ batchOut = NoBatchOut
  /\ page = NoPage
  /\ pins = NoPins
  /\ tasks = <<>>
  /\ events = <<>>
  /\ fetching = NoFetching

\* the outcomes a load can have when init() runs with this data
LoadOutcomes(d) == IF d = NoData THEN BOOLEAN ELSE {TRUE}

\* BambooGeocoder.init(): loads the document unless it is loaded already; a
\* failed load leaves data null
GeocoderInit ==
  /\ \E loadOk \in LoadOutcomes(data) :
       data' = IF data # NoData THEN data ELSE IF loadOk THEN "cities" ELSE NoData
  /\ UNCHANGED <<tasks, events, fetching, cache, hist, parsedOut, grouping, batchOut, page, pins>>

\* BambooGeocoder.geocode(locationStr), awaited by its caller
Geocode(locationStr) ==
  \E loadOk \in LoadOutcomes(data) :
    \E r \in {GeocodeCall(data, cache, locationStr, loadOk)} :
      /\ data' = r.data
      /\ cache' = r.cache
      /\ hist' = Append(hist, r.rec)
      /\ UNCHANGED <<tasks, events, fetching, parsedOut, grouping, batchOut, page, pins>>

\* BambooGeocoder.clearCache()
ClearCache ==
  /\ cache' = EmptyCache
  /\ hist' = <<>>
  /\ UNCHANGED <<tasks, events, fetching, data, parsedOut, grouping, batchOut, page, pins>>

\* BambooGeocoder.parseLocation(locationStr), the exported function
ParseLocation(locationStr) ==
  /\ parsedOut' = [arg |-> locationStr, out |-> Parsed(locationStr), called |-> TRUE]
  /\ UNCHANGED <<tasks, events, fetching, data, cache, hist, grouping, batchOut, page, pins>>

\* ------------------------------------------------------------------------
\* geocodeBatch and groupEmployeesByLocation
\* ------------------------------------------------------------------------

RECURSIVE UniqueFrom(_, _)
\* [...new Set(locations)]: the distinct elements, in order of first occurrence
UniqueFrom(seq, n) ==
  IF n > Len(seq) THEN <<>>
  ELSE IF \E m \in 1..(n - 1) : seq[m] = seq[n] THEN UniqueFrom(seq, n + 1)
  ELSE <<seq[n]>> \o UniqueFrom(seq, n + 1)

\* [...locations]: every element, repeated ones too
KeepAll(seq) == seq

Unique(seq) == UniqueFrom(seq, 1)

\* results.set under the normalized string instead of the string itself
ResultsSetUnderKey(results, location, coords) ==
  [l \in DOMAIN results \cup {Normalized(location)} |->
     IF l = Normalized(location) THEN coords ELSE results[l]]

\* Map.prototype.set on the results of a batch
ResultsSet(results, location, coords) ==
  [l \in DOMAIN results \cup {location} |-> IF l = location THEN coords ELSE results[l]]

RECURSIVE BatchFrom(_, _, _, _, _, _, _)
\* for (const location of unique) { coords = await geocode(location); ... }
\* The load attempted by the a-th init() of the batch succeeds iff a >= firstOk.
BatchFrom(d, c, unique, n, firstOk, results, recs) ==
  IF n > Len(unique)
    THEN [data |-> d, cache |-> c, results |-> results, recs |-> recs]
  ELSE CHOOSE batch \in
    { BatchFrom(r.data, r.cache, unique, n + 1, firstOk,
                IF r.rec.ret.isNull THEN results ELSE ResultsSet(results, unique[n], r.rec.ret),
                Append(recs, r.rec))
      : r \in {GeocodeCall(d, c, unique[n], n + 1 >= firstOk)} } : TRUE

geocodeBatch(d, c, locations, firstOk) ==
  LET d0 == IF d # NoData THEN d ELSE IF 1 >= firstOk THEN "cities" ELSE NoData
  IN CHOOSE batch \in
       { BatchFrom(d0, c, unique, 1, firstOk, NoResults, <<>>)
         : unique \in {Unique(SelectSeq(locations, NonEmpty))} } : TRUE

Abs(x) == IF x < 0 THEN -x ELSE x

\* two decimals by truncation instead of rounding
toFixedTruncating(x) == [neg |-> x < 0, hundredths |-> Abs(x) \div 100]

\* Number.prototype.toFixed(2) of x/10000: the sign and the hundredths
toFixed(x) == [neg |-> x < 0, hundredths |-> (Abs(x) + 50) \div 100]

\* `${coords.lat.toFixed(2)},${coords.lng.toFixed(2)}`
GroupKey(coords) == <<toFixed(coords.lat), toFixed(coords.lng)>>

GroupIndex(groups, key) == CHOOSE g \in DOMAIN groups : groups[g].key = key

RECURSIVE GroupFromReplacing(_, _, _, _)
\* the loop with groups.set on every employee, replacing an existing group
GroupFromReplacing(employeeList, n, geocoded, groups) ==
  IF n > Len(employeeList) THEN groups
  ELSE LET employee == employeeList[n] IN
    IF employee.location = <<>> \/ employee.location \notin DOMAIN geocoded
      THEN GroupFromReplacing(employeeList, n + 1, geocoded, groups)
    ELSE LET coords == geocoded[employee.location]
             key == GroupKey(coords)
             fresh == [key |-> key, lat |-> coords.lat, lng |-> coords.lng,
                       name |-> IF coords.name # <<>> THEN coords.name ELSE employee.location,
                       employees |-> <<employee>>]
         IN IF \E g \in DOMAIN groups : groups[g].key = key
              THEN GroupFromReplacing(employeeList, n + 1, geocoded,
                     [groups EXCEPT ![GroupIndex(groups, key)] = fresh])
            ELSE GroupFromReplacing(employeeList, n + 1, geocoded, Append(groups, fresh))

\* the body of the loop with lat, lng and name written on every employee
GroupStepAnchoringLast(employee, geocoded, groups) ==
  IF employee.location = <<>> \/ employee.location \notin DOMAIN geocoded
    THEN groups
  ELSE LET coords == geocoded[employee.location]
           key == GroupKey(coords)
           withGroup ==
             IF \E g \in DOMAIN groups : groups[g].key = key THEN groups
             ELSE Append(groups,
                    [key |-> key, lat |-> coords.lat, lng |-> coords.lng,
                     name |-> coords.name, employees |-> <<>>])
           g == GroupIndex(withGroup, key)
       IN [withGroup EXCEPT ![g] =
             [key |-> key, lat |-> coords.lat, lng |-> coords.lng,
              name |-> IF coords.name # <<>> THEN coords.name ELSE employee.location,
              employees |-> Append(@.employees, employee)]]

\* the body of the loop for one employee; groups is the Map in insertion
\* order
GroupStep(employee, geocoded, groups) ==
  IF employee.location = <<>> \/ employee.location \notin DOMAIN geocoded
    THEN groups
  ELSE LET coords == geocoded[employee.location]
           key == GroupKey(coords)
           withGroup ==
             IF \E g \in DOMAIN groups : groups[g].key = key THEN groups
             ELSE Append(groups,
                    [key |-> key, lat |-> coords.lat, lng |-> coords.lng,
                     name |-> IF coords.name # <<>> THEN coords.name ELSE employee.location,
                     employees |-> <<>>])
           g == GroupIndex(withGroup, key)
       IN [withGroup EXCEPT ![g].employees = Append(@, employee)]

RECURSIVE GroupFrom(_, _, _, _)
\* for (const employee of employeeList) { ... } from employee n on
GroupFrom(employeeList, n, geocoded, groups) ==
  IF n > Len(employeeList) THEN groups
  ELSE CHOOSE all \in
    { GroupFrom(employeeList, n + 1, geocoded, next)
      : next \in {GroupStep(employeeList[n], geocoded, groups)} } : TRUE

Location(employee) == employee.location

\* groupEmployeesByLocation(employeeList), awaited by its caller
GroupEmployees(employeeList) ==
  \E locations \in {SelectSeq(MapSeq(employeeList, Location), NonEmpty)} :
     \E firstOk \in (IF data = NoData THEN 1..(Len(Unique(locations)) + 2) ELSE {1}) :
       \E batch \in {geocodeBatch(data, cache, locations, firstOk)} :
         /\ data' = batch.data
         /\ cache' = batch.cache
         /\ hist' = hist \o batch.recs
         /\ grouping' =
              [called |-> TRUE, employeeList |-> employeeList, calls |-> batch.recs,
               geocoded |-> batch.results,
               groups |-> GroupFrom(employeeList, 1, batch.results, <<>>),
               cacheWasEmpty |-> cache = EmptyCache]
         /\ UNCHANGED <<tasks, events, fetching, parsedOut, batchOut, page, pins>>

\* BambooGeocoder.geocodeBatch(locations), the exported function, awaited by
\* its caller
GeocodeBatch(locations) ==
  \E firstOk \in (IF data = NoData
                    THEN 1..(Len(Unique(SelectSeq(locations, NonEmpty))) + 2) ELSE {1}) :
    \E batch \in {geocodeBatch(data, cache, locations, firstOk)} :
      /\ data' = batch.data
      /\ cache' = batch.cache
      /\ hist' = hist \o batch.recs
      /\ batchOut' = [called |-> TRUE, locations |-> locations, calls |-> batch.recs,
                      geocoded |-> batch.results]
      /\ UNCHANGED <<tasks, events, fetching, parsedOut, grouping, page, pins>>

\* record n of an employee list has id n
Employees(locations) == [i \in DOMAIN locations |-> [id |-> i, location |-> locations[i]]]

\* the people of the end-to-end scenario
ScenarioLocations == <<StrCaliforniaWFH, StrCA, StrRemoteArgentina, StrOntario>>

\* the employee lists: every list of at most MaxEmployees records, and the
\* scenario's
EmployeeLists ==
  UNION { { Employees(f) : f \in [1..n -> EmployeeLocations] } : n \in 0..MaxEmployees }
    \cup { Employees(ScenarioLocations) }

\* ------------------------------------------------------------------------
\* BambooMap (map.js): the pins
\* ------------------------------------------------------------------------

\* config.pinBaseRadius and config.pinMaxRadius
pinBaseRadius == 6
pinMaxRadius == 20

\* Math.log(n) for n = 1, 2, ..., in ten-thousandths
LnTable ==
  << 0, 6931, 10986, 13863, 16094, 17918,
     19459, 20794, 21972, 23026, 23979, 24849 >>

MathLog(n) == LnTable[n]

\* the quotient of the two logarithms turned over
getPinRadiusInverted(count, maxCount) ==
  pinBaseRadius * 1000
    + (MathLog(maxCount + 1) * (pinMaxRadius - pinBaseRadius) * 1000) \div MathLog(count + 1)

\* getPinRadius(count, maxCount), in thousandths of a pixel:
\* normalized = Math.log(count + 1) / Math.log(maxCount + 1);
\* pinBaseRadius + normalized * (pinMaxRadius - pinBaseRadius)
getPinRadius(count, maxCount) ==
  pinBaseRadius * 1000
    + (MathLog(count + 1) * (pinMaxRadius - pinBaseRadius) * 1000) \div MathLog(maxCount + 1)

\* l.employees.length
MemberCount(location) == Len(location.employees)

\* the member count of the first location
CountOfFirst(locations) == MemberCount(locations[1])

\* Math.max(...locations.map(l => l.employees.length)), locations not empty
MaxCount(locations) ==
  CHOOSE m \in { MemberCount(locations[i]) : i \in DOMAIN locations } :
    \A i \in DOMAIN locations : MemberCount(locations[i]) <= m

\* the circle appended for one location: its datum's member count and the
\* attribute r the render pass gives it; the pointer is not over it
Pin(location, maxCount) ==
  [count |-> MemberCount(location),
   r |-> getPinRadius(MemberCount(location), maxCount),
   hovered |-> FALSE]

\* renderPins(locations) on the map state m: nothing without g and
\* projection; the pins of the pass before are removed; no pins for an empty
\* list
renderPins(m, locations) ==
  IF ~m.ready THEN m
  ELSE IF locations = <<>>
    THEN [ready |-> TRUE, called |-> TRUE, counts |-> <<>>, maxCount |-> 0, rendered |-> <<>>]
    ELSE CHOOSE v \in
           { [ready |-> TRUE, called |-> TRUE,
              counts |-> MapSeq(locations, MemberCount),
              maxCount |-> maxCount,
              rendered |-> [i \in DOMAIN locations |-> Pin(locations[i], maxCount)]]
             : maxCount \in {MaxCount(locations)} } : TRUE

\* the attribute r of a circle once its transition has ended: the handler of
\* mouseenter sets getPinRadius(...) * 1.2, the handler of mouseleave
\* getPinRadius(...)
DrawnRadius(pin) == IF pin.hovered THEN (pin.r * 12) \div 10 ELSE pin.r

\* BambooMap.init(container, options): g and projection are set; a failed
\* load of the world outline is swallowed by loadWorldData
MapInit ==
  /\ pins' = [pins EXCEPT !.ready = TRUE]
  /\ UNCHANGED <<tasks, events, fetching, data, cache, hist, parsedOut, grouping, batchOut, page>>

\* BambooMap.renderPins(locations), the exported function
RenderPins(locations) ==
  /\ pins' = renderPins(pins, locations)
  /\ UNCHANGED <<tasks, events, fetching, data, cache, hist, parsedOut, grouping, batchOut, page>>

\* the pointer, over no pin, enters the pin group i
MouseEnter(i) ==
  /\ i \in DOMAIN pins.rendered
  /\ \A j \in DOMAIN pins.rendered : ~pins.rendered[j].hovered
  /\ pins' = [pins EXCEPT !.rendered[i].hovered = TRUE]
  /\ UNCHANGED <<tasks, events, fetching, data, cache, hist, parsedOut, grouping, batchOut, page>>

\* the pointer leaves the pin group i it is over
MouseLeave(i) ==
  /\ i \in DOMAIN pins.rendered
  /\ pins.rendered[i].hovered
  /\ pins' = [pins EXCEPT !.rendered[i].hovered = FALSE]
  /\ UNCHANGED <<tasks, events, fetching, data, cache, hist, parsedOut, grouping, batchOut, page>>

\* the groups a render pass is given hold at most MaxMembers people each,
\* and there are at most MaxPins of them
MaxMembers == 3
MaxPins == 3

\* a group of n people at a place of its own
PinLocation(n) ==
  [lat |-> 0, lng |-> 0, name |-> <<>>,
   employees |-> [i \in 1..n |-> [id |-> i, location |-> <<>>]]]

PinLocationLists ==
  UNION { { MapSeq(f, PinLocation) : f \in [1..n -> 1..MaxMembers] } : n \in 0..MaxPins }

\* ------------------------------------------------------------------------
\* geocode and groupEmployeesByLocation on a document that makes find throw
\* ------------------------------------------------------------------------

\* geocode(locationStr) on the loaded document d and the cache c throws: the
\* string is not empty, not answered from the cache and parsed, and the loop
\* throws; geocode has no try
GeocodeThrows(d, c, locationStr) ==
  /\ d \notin {NoData, "cities"}
  /\ locationStr # <<>>
  /\ ~CacheHas(c, CacheKey(locationStr))
  /\ \E parsed \in {Parsed(locationStr)} :
       ~parsed.isNull /\ SearchThrows(d, parsed.parts, 1)

RECURSIVE FirstThrow(_, _, _, _)
\* the first location from n on at which the geocode of geocodeBatch throws,
\* 0 when none does; the calls before it fill the cache
FirstThrow(d, c, unique, n) ==
  IF d \in {NoData, "cities"} \/ n > Len(unique) THEN 0
  ELSE IF GeocodeThrows(d, c, unique[n]) THEN n
  ELSE FirstThrow(d, GeocodeCall(d, c, unique[n], TRUE).cache, unique, n + 1)

\* groupEmployeesByLocation(employeeList) on geocoder state (d, c): the state
\* after it, the calls of geocode that returned, and either the groups or
\* the rejection, which neither geocodeBatch nor groupEmployeesByLocation
\* catches
groupEmployeesByLocation(d, c, employeeList, firstOk) ==
  CHOOSE out \in
    { CHOOSE ended \in
        { IF thrownAt = 0
            THEN CHOOSE done \in
              { [threw |-> FALSE, data |-> batch.data, cache |-> batch.cache,
                 recs |-> batch.recs,
                 groups |-> GroupFrom(employeeList, 1, batch.results, <<>>)]
                : batch \in {geocodeBatch(d, c, locations, firstOk)} } : TRUE
          ELSE CHOOSE failed \in
              { [threw |-> TRUE, data |-> batch.data, cache |-> batch.cache,
                 recs |-> batch.recs, groups |-> <<>>]
                : batch \in {geocodeBatch(d, c, SubSeq(Unique(locations), 1, thrownAt - 1),
                                           firstOk)} } : TRUE
          : thrownAt \in {FirstThrow(d, c, Unique(locations), 1)} } : TRUE
      : locations \in {SelectSeq(MapSeq(employeeList, Location), NonEmpty)} } : TRUE

\* ------------------------------------------------------------------------
\* The content script (content.js) on the directory page
\* ------------------------------------------------------------------------

\* localStorage.setItem(STORAGE_KEY, isCollapsed): the boolean as a string
StoredValue(isCollapsed) == IF isCollapsed THEN "true" ELSE "false"

\* any stored string taken for collapsed
StoredTruthy(stored) == stored # "null"

\* localStorage.getItem(STORAGE_KEY) === 'true'
StoredCollapsed(stored) == stored = "true"

HasLocation(emp) == emp.location # <<>>

\* processEmployeeData: the employees that have a location
processEmployeeData(validatedEmployees) == SelectSeq(validatedEmployees, HasLocation)

\* String.prototype.includes
Includes(str, sub) ==
  \E i \in 0..(Len(str) - Len(sub)) : SubSeq(str, i + 1, i + Len(sub)) = sub

\* `${emp.firstName} ${emp.lastName}`.toLowerCase()
FullName(emp) == ToLowerCase(emp.firstName \o <<" ">> \o emp.lastName)

\* the employees that match every filter but excludeFilter
filterEmployeesExcluding(allEmployeesData, currentFilters, excludeFilter) ==
  LET nameMatch(emp) ==
        \/ excludeFilter = "name"
        \/ currentFilters.name = <<>>
        \/ Includes(FullName(emp), ToLowerCase(currentFilters.name))
      fieldMatch(emp, field) ==
        \/ excludeFilter = field
        \/ currentFilters[field] = <<>>
        \/ emp[field] = currentFilters[field]
      Matches(emp) ==
        /\ nameMatch(emp)
        /\ fieldMatch(emp, "jobTitle")
        /\ fieldMatch(emp, "department")
        /\ fieldMatch(emp, "division")
  IN SelectSeq(allEmployeesData, Matches)

\* filterEmployees(): filterEmployeesExcluding(null)
filterEmployees(allEmployeesData, currentFilters) ==
  filterEmployeesExcluding(allEmployeesData, currentFilters, "null")

\* the distinct non-empty values of field among employeeList (the code sorts
\* them; the options of a select are kept as a set)
getUniqueValues(field, employeeList) ==
  { employeeList[i][field] : i \in DOMAIN employeeList } \ {<<>>}

\* updateDropdown on st = [currentFilters, options]: the select gets the
\* available values, and a filter value that is not among them is reset
updateDropdown(filterName, availableValues, st) ==
  [currentFilters |->
     IF st.currentFilters[filterName] # <<>>
          /\ st.currentFilters[filterName] \notin availableValues
       THEN [st.currentFilters EXCEPT ![filterName] = <<>>]
       ELSE st.currentFilters,
   options |-> [st.options EXCEPT ![filterName] = availableValues]]

\* updateFilterDropdowns: the three lists of available values are computed
\* from the filters as they stand, then the three selects are updated
updateFilterDropdowns(allEmployeesData, currentFilters, options) ==
  LET available ==
        [f \in {"jobTitle", "department", "division"} |->
           getUniqueValues(f, filterEmployeesExcluding(allEmployeesData, currentFilters, f))]
      st0 == [currentFilters |-> currentFilters, options |-> options]
      st1 == updateDropdown("jobTitle", available["jobTitle"], st0)
      st2 == updateDropdown("department", available["department"], st1)
  IN updateDropdown("division", available["division"], st2)

RECURSIVE SumOfCounts(_, _)
\* locationsArray.reduce((sum, loc) => sum + loc.employees.length, 0)
SumOfCounts(locations, n) ==
  IF n > Len(locations) THEN 0
  ELSE MemberCount(locations[n]) + SumOfCounts(locations, n + 1)

totalEmployees(locationsArray) == SumOfCounts(locationsArray, 1)

\* updateFilterCount(employeeCount, locationCount)
updateFilterCount(employeeCount, locationCount) ==
  [shown |-> TRUE, employees |-> employeeCount, locations |-> locationCount]

\* initializeMap() on the page state pg and the map state m, run to its end:
\* nothing when the map is initialised; else BambooMap.init, the filter
\* controls, the pins of locationGroups and the stats
initializeMap(pg, m) ==
  IF pg.mapInitialized THEN [page |-> pg, pins |-> m]
  ELSE [page |-> [pg EXCEPT !.filterControls = TRUE,
                            !.currentFilters =
                               updateFilterDropdowns(pg.allEmployeesData, pg.currentFilters,
                                                     pg.options).currentFilters,
                            !.options =
                               updateFilterDropdowns(pg.allEmployeesData, pg.currentFilters,
                                                     pg.options).options,
                            !.stats = updateFilterCount(totalEmployees(pg.locationGroups),
                                                        Len(pg.locationGroups)),
                            !.mapInitialized = TRUE],
        pins |-> renderPins([m EXCEPT !.ready = TRUE], pg.locationGroups)]

\* init() up to its first await: createMapUI() inserts the wrapper with the
\* toggle button, collapsed when the stored item says so
PageStart ==
  /\ page.pc = "none"
  /\ page' = [page EXCEPT !.pc = "ui",
                          !.collapsed = StoredCollapsed(page.stored),
                          !.startedCollapsed = StoredCollapsed(page.stored)]
  /\ UNCHANGED <<tasks, events, fetching, data, cache, hist, parsedOut, grouping, batchOut, pins>>

\* the documents the load of BambooGeocoder.init() can give, NoData for a
\* failed load
InitOutcomes(d) == IF d = NoData THEN Documents \cup {NoData} ELSE {d}

\* the rest of init(), rawEmployees being what fetchEmployees() resolved to:
\* processEmployeeData, BambooGeocoder.init(), groupEmployeesByLocation, and
\* then initializeMap() or, collapsed, the call of updateStats, a function
\* defined nowhere
PageLoad(rawEmployees) ==
  /\ page.pc = "ui"
  /\ IF rawEmployees = <<>>
       THEN /\ page' = [page EXCEPT !.pc = "done"]
            /\ UNCHANGED <<data, cache, hist, pins>>
       ELSE \E allEmployeesData \in {processEmployeeData(rawEmployees)} :
            \E d1 \in InitOutcomes(data) :
            \E firstOk \in (IF d1 = NoData
                              THEN 1..(Len(Unique(MapSeq(allEmployeesData, Location))) + 2)
                              ELSE {1}) :
            \E out \in {groupEmployeesByLocation(d1, cache, allEmployeesData, firstOk)} :
            \E pg \in {[page EXCEPT !.pc = "done", !.loaded = TRUE,
                                    !.loadedCollapsed = StoredCollapsed(page.stored),
                                    !.rawEmployees = rawEmployees,
                                    !.allEmployeesData = allEmployeesData,
                                    !.filtered = allEmployeesData]} :
              /\ data' = out.data
              /\ cache' = out.cache
              /\ hist' = hist \o out.recs
              /\ IF out.threw
                   THEN /\ page' = [pg EXCEPT !.threw = "TypeError"]
                        /\ UNCHANGED pins
                 ELSE IF ~StoredCollapsed(page.stored)
                   THEN \E r \in {initializeMap([pg EXCEPT !.locationGroups = out.groups], pins)} :
                          /\ page' = r.page
                          /\ pins' = r.pins
                   ELSE /\ page' = [pg EXCEPT !.locationGroups = out.groups,
                                              !.threw = "ReferenceError"]
                        /\ UNCHANGED pins
  /\ UNCHANGED <<tasks, events, fetching, parsedOut, grouping, batchOut>>

\* a click on the toggle button: toggleMap(), and the callback of the
\* MutationObserver when init() has installed one
ToggleMap ==
  /\ page.pc \in {"ui", "done"}
  /\ \E isCollapsed \in {~page.collapsed} :
     \E pg \in {[page EXCEPT !.collapsed = isCollapsed,
                             !.stored = StoredValue(isCollapsed),
                             !.clicked = TRUE,
                             !.expanded = @ \/ (page.pc = "done" /\ ~isCollapsed)]} :
       IF pg.observer /\ ~isCollapsed /\ ~pg.mapInitialized
         THEN \E r \in {initializeMap([pg EXCEPT !.observer = FALSE], pins)} :
                /\ page' = r.page
                /\ pins' = r.pins
         ELSE /\ page' = pg
              /\ UNCHANGED pins
  /\ UNCHANGED <<tasks, events, fetching, data, cache, hist, parsedOut, grouping, batchOut>>

\* the filter changes of one page load
MaxChanges == 1

\* updateMapWithFilters() on the page state pg, run to its end
UpdateMapWithFilters(pg) ==
  \E st \in {updateFilterDropdowns(pg.allEmployeesData, pg.currentFilters, pg.options)} :
  \E currentFilters \in {st.currentFilters} :
  \E filtered \in {filterEmployees(pg.allEmployeesData, currentFilters)} :
  \E firstOk \in (IF data = NoData
                    THEN 1..(Len(Unique(MapSeq(filtered, Location))) + 2) ELSE {1}) :
  \E out \in {groupEmployeesByLocation(data, cache, filtered, firstOk)} :
    /\ data' = out.data
    /\ cache' = out.cache
    /\ hist' = hist \o out.recs
    /\ IF out.threw
         THEN /\ page' = [pg EXCEPT !.currentFilters = currentFilters,
                                    !.options = st.options, !.filtered = filtered,
                                    !.threw = "TypeError"]
              /\ UNCHANGED pins
         ELSE /\ pins' = renderPins(pins, out.groups)
              /\ page' = [pg EXCEPT !.currentFilters = currentFilters,
                                    !.options = st.options, !.filtered = filtered,
                                    !.shownFilters = currentFilters,
                                    !.stats = updateFilterCount(Len(filtered), Len(out.groups))]
    /\ UNCHANGED <<tasks, events, fetching, parsedOut, grouping, batchOut>>

\* the input listener of the name field
NameInput(value) ==
  /\ page.filterControls
  /\ UpdateMapWithFilters([page EXCEPT !.currentFilters.name = value,
                                       !.changes = @ + 1])

\* the change listener of the select of filterName, value being one of its
\* options
FilterChange(filterName, value) ==
  /\ page.filterControls
  /\ value \in page.options[filterName] \cup {<<>>}
  /\ UpdateMapWithFilters([page EXCEPT !.currentFilters[filterName] = value,
                                       !.changes = @ + 1])

\* the click listener of the reset button: the filters are emptied, then
\* updateFilterDropdowns() and updateMapWithFilters()
FilterReset ==
  /\ page.filterControls
  /\ \E st \in {updateFilterDropdowns(page.allEmployeesData, NoFilters, page.options)} :
       UpdateMapWithFilters([page EXCEPT !.currentFilters = st.currentFilters,
                                         !.options = st.options,
                                         !.changes = @ + 1])

\* the directory page is loaded again: a new document and new scripts, the
\* same localStorage
Reload ==
  /\ page.pc \in {"ui", "done"}
  /\ page' = [NoPage EXCEPT !.stored = page.stored, !.reloaded = TRUE,
                            !.leftCollapsed = page.collapsed]
  /\ data' = NoData
  /\ cache' = EmptyCache
  /\ hist' = <<>>
  /\ pins' = NoPins
  /\ UNCHANGED <<tasks, events, fetching, parsedOut, grouping, batchOut>>

\* what the directory says of an employee
StrEng == <<"E","n","g">>
StrOps == <<"O","p","s">>
Departments == {StrEng, StrOps}
StaffLocations == {<<>>, StrCA, StrAtlantis}

\* the employees fetchEmployees() resolves to: at most MaxStaff validated
\* records
MaxStaff == 2

\* validateEmployee leaves '' in the fields the directory does not give
Staff(f) ==
  [i \in DOMAIN f |-> [id |-> i, firstName |-> <<>>, lastName |-> <<>>, jobTitle |-> <<>>,
                        division |-> <<>>,
                        location |-> f[i].location, department |-> f[i].department]]

StaffLists ==
  UNION { { Staff(f) : f \in [1..n -> [location : StaffLocations, department : Departments]] }
          : n \in 0..MaxStaff }

\* a directory whose employees differ in name, job title, department and
\* division
StrDev == <<"D","e","v">>
StrMgr == <<"M","g","r">>
StrEast == <<"E","a","s","t">>
StrWest == <<"W","e","s","t">>

Ann ==
  [id |-> 1, firstName |-> <<"A","n","n">>, lastName |-> <<"L","e","e">>, jobTitle |-> StrDev,
   division |-> StrEast, location |-> StrCA, department |-> StrEng]

Bob ==
  [id |-> 2, firstName |-> <<"B","o","b">>, lastName |-> <<"R","a","y">>, jobTitle |-> StrMgr,
   division |-> StrWest, location |-> StrAtlantis, department |-> StrOps]

Cy ==
  [id |-> 3, firstName |-> <<"C","y">>, lastName |-> <<"L","e","e">>, jobTitle |-> StrDev,
   division |-> StrEast, location |-> StrCA, department |-> StrOps]

FilterDirectories == {<<Ann, Bob>>, <<Ann, Bob, Cy>>}

\* what the user types into the name field
NameTexts == {<<>>, <<"B","o","b">>, <<"l","e","e">>, <<"z">>}

\* the filter events of one page load under SpecFilters
MaxEdits == 2

\* ------------------------------------------------------------------------
\* Calls that are not awaited by their caller
\* ------------------------------------------------------------------------
\* A step is one turn of the event loop: the caller's block or the completion
\* of one fetch, with the continuations it makes runnable.  `await init()`
\* with data loaded resumes within the turn; with data null it waits for the
\* fetch of init(), and the call is kept in tasks until that fetch completes.

\* the calls started under SpecAsync and SpecOverlap
MaxTasks == 2

Event(id, type, arg) == [task |-> id, type |-> type, arg |-> arg]

\* the number of the next call: the calls are numbered as they start
NextTask == Cardinality({ events[i].task : i \in DOMAIN events }) + 1

\* geocode(locationStr) from `await init()` on, data being d by then: the
\* cache is not looked at again
GeocodeResume(d, c, locationStr) ==
  IF d = NoData THEN [cache |-> c, ret |-> NoResult]
  ELSE CHOOSE after \in
    { IF parsed.isNull THEN [cache |-> c, ret |-> NoResult]
      ELSE CHOOSE stored \in
        { [cache |-> CacheSet(c, CacheKey(locationStr), result), ret |-> result]
          : result \in {Searched(d, parsed.parts)} } : TRUE
      : parsed \in {Parsed(locationStr)} } : TRUE

\* geocode(locationStr) returns without `await init()`
ReturnsAtOnce(c, locationStr) == locationStr = <<>> \/ CacheHas(c, CacheKey(locationStr))

ValueAtOnce(c, locationStr) ==
  IF locationStr = <<>> THEN NoResult ELSE CacheGet(c, CacheKey(locationStr))

\* `if (coords) results.set(location, coords)`
Collect(results, location, coords) ==
  IF coords.isNull THEN results ELSE ResultsSet(results, location, coords)

RECURSIVE BatchRun(_, _, _, _, _, _, _)
\* the loop of geocodeBatch from unique[n] on, up to the geocode that has to
\* wait for a fetch (waitAt) or to the end of the loop (waitAt = 0)
BatchRun(d, c, id, unique, n, results, evs) ==
  IF n > Len(unique)
    THEN [cache |-> c, results |-> results, events |-> evs, waitAt |-> 0]
  ELSE LET started == Append(evs, Event(id, "start", unique[n]))
           ended == Append(started, Event(id, "end", unique[n]))
       IN IF ReturnsAtOnce(c, unique[n])
            THEN BatchRun(d, c, id, unique, n + 1,
                          Collect(results, unique[n], ValueAtOnce(c, unique[n])), ended)
          ELSE IF d = NoData
            THEN [cache |-> c, results |-> results, events |-> started, waitAt |-> n]
          ELSE CHOOSE run \in
            { BatchRun(d, r.cache, id, unique, n + 1,
                       Collect(results, unique[n], r.ret), ended)
              : r \in {GeocodeResume(d, c, unique[n])} } : TRUE

\* a call that waits: kind is "geocode", "batch" (geocodeBatch) or "update"
\* (updateMapWithFilters); n = 0 while geocodeBatch waits for its own init()
Task(id, kind, unique, n, results, filtered, filters) ==
  [id |-> id, kind |-> kind, unique |-> unique, n |-> n, results |-> results,
   filtered |-> filtered, filters |-> filters]

RECURSIVE StartAll(_, _, _, _, _)
\* locations.map(geocode) up to its first await: every call looks at the
\* cache before any of them goes on
StartAll(c, locations, n, id, st) ==
  IF n > Len(locations) THEN st
  ELSE LET started == Append(st.events, Event(id, "start", locations[n])) IN
    StartAll(c, locations, n + 1, id + 1,
      IF ReturnsAtOnce(c, locations[n])
        THEN [st EXCEPT !.events = Append(started, Event(id, "end", locations[n]))]
        ELSE [events |-> started,
              waiting |-> Append(st.waiting,
                                 Task(id, "geocode", <<locations[n]>>, 1, NoResults, <<>>,
                                      NoFilters))])

RECURSIVE ResumeAll(_, _, _, _)
\* the calls of waiting go on in the order they were started
ResumeAll(d, waiting, n, st) ==
  IF n > Len(waiting) THEN st
  ELSE CHOOSE rest \in
    { ResumeAll(d, waiting, n + 1,
                [cache |-> r.cache,
                 events |-> Append(st.events,
                                   Event(waiting[n].id, "end", waiting[n].unique[1]))])
      : r \in {GeocodeResume(d, st.cache, waiting[n].unique[1])} } : TRUE

\* the caller starts geocode on each of locations without awaiting any
GeocodeAll(locations) ==
  \E st \in {StartAll(cache, locations, 1, NextTask,
                       [events |-> events, waiting |-> <<>>])} :
    IF data = NoData
      THEN /\ tasks' = tasks \o st.waiting
           /\ events' = st.events
           /\ UNCHANGED <<data, cache, hist, parsedOut, grouping, batchOut, page, pins,
                          fetching>>
      ELSE \E done \in {ResumeAll(data, st.waiting, 1,
                                  [cache |-> cache, events |-> st.events])} :
             /\ cache' = done.cache
             /\ events' = done.events
             /\ UNCHANGED <<data, hist, parsedOut, grouping, batchOut, page, pins, tasks,
                            fetching>>

\* geocodeBatch(locations), not awaited by its caller
StartBatch(locations) ==
  \E unique \in {Unique(SelectSeq(locations, NonEmpty))} :
  \E called \in {Append(events, Event(NextTask, "call", locations))} :
    IF data = NoData
      THEN /\ tasks' = Append(tasks, Task(NextTask, "batch", unique, 0, NoResults, <<>>,
                                          NoFilters))
           /\ events' = called
           /\ UNCHANGED <<data, cache, hist, parsedOut, grouping, batchOut, page, pins,
                          fetching>>
      ELSE \E run \in {BatchRun(data, cache, NextTask, unique, 1, NoResults, called)} :
             /\ cache' = run.cache
             /\ events' = Append(run.events, Event(NextTask, "return", locations))
             /\ UNCHANGED <<data, hist, parsedOut, grouping, batchOut, page, pins, tasks,
                            fetching>>

Without(seq, i) == SubSeq(seq, 1, i - 1) \o SubSeq(seq, i + 1, Len(seq))

\* the end of updateMapWithFilters: Array.from(newGroups.values()),
\* renderPins and updateFilterCount
ShowGroups(pg, t, results) ==
  LET groups == GroupFrom(t.filtered, 1, results, <<>>) IN
    /\ pins' = renderPins(pins, groups)
    /\ page' = [pg EXCEPT !.stats = updateFilterCount(Len(t.filtered), Len(groups)),
                          !.shownFilters = t.filters]

\* the fetch that tasks[i] waits for completes, with the document or with
\* an error, and the call goes on to its next fetch or to its end
Resume(i, loadOk) ==
  /\ i \in DOMAIN tasks
  /\ \E t \in {tasks[i]} :
     \E d1 \in {IF loadOk THEN "cities" ELSE data} :
       /\ data' = d1
       /\ IF t.kind = "geocode"
            THEN \E r \in {GeocodeResume(d1, cache, t.unique[1])} :
                   /\ cache' = r.cache
                   /\ events' = Append(events, Event(t.id, "end", t.unique[1]))
                   /\ tasks' = Without(tasks, i)
                   /\ UNCHANGED <<page, pins>>
          ELSE \E run \in
                 { IF t.n = 0
                     THEN BatchRun(d1, cache, t.id, t.unique, 1, NoResults, events)
                   ELSE CHOOSE rest \in
                     { BatchRun(d1, r.cache, t.id, t.unique, t.n + 1,
                                Collect(t.results, t.unique[t.n], r.ret),
                                Append(events, Event(t.id, "end", t.unique[t.n])))
                       : r \in {GeocodeResume(d1, cache, t.unique[t.n])} } : TRUE } :
                 /\ cache' = run.cache
                 /\ IF run.waitAt > 0
                      THEN /\ tasks' = [tasks EXCEPT ![i] = [t EXCEPT !.n = run.waitAt,
                                                                      !.results = run.results]]
                           /\ events' = run.events
                           /\ UNCHANGED <<page, pins>>
                    ELSE /\ tasks' = Without(tasks, i)
                         /\ events' = Append(run.events, Event(t.id, "return", t.unique))
                         /\ IF t.kind = "update"
                              THEN ShowGroups(page, t, run.results)
                              ELSE UNCHANGED <<page, pins>>
       /\ UNCHANGED <<hist, parsedOut, grouping, batchOut, fetching>>

\* updateMapWithFilters() on the page state pg, called by a listener, which
\* does not await it: updateFilterDropdowns, filterEmployees, and
\* groupEmployeesByLocation up to the first fetch it has to wait for.  (The
\* documents whose searches throw are left to SpecPage.)
StartUpdate(pg) ==
  /\ data \in {NoData, "cities"}
  /\ \E st \in {updateFilterDropdowns(pg.allEmployeesData, pg.currentFilters, pg.options)} :
     \E filtered \in {filterEmployees(pg.allEmployeesData, st.currentFilters)} :
     \E locations \in {SelectSeq(MapSeq(filtered, Location), NonEmpty)} :
     \E t \in {Task(NextTask, "update", Unique(locations), 0, NoResults, filtered,
                     st.currentFilters)} :
     \E pg1 \in {[pg EXCEPT !.currentFilters = st.currentFilters, !.options = st.options,
                             !.filtered = filtered]} :
     \E called \in {Append(events, Event(t.id, "call", locations))} :
       IF data = NoData
         THEN /\ tasks' = Append(tasks, t)
              /\ events' = called
              /\ page' = pg1
              /\ UNCHANGED <<data, cache, hist, parsedOut, grouping, batchOut, pins, fetching>>
         ELSE \E run \in {BatchRun(data, cache, t.id, t.unique, 1, NoResults, called)} :
                /\ cache' = run.cache
                /\ events' = Append(run.events, Event(t.id, "return", t.unique))
                /\ ShowGroups(pg1, t, run.results)
                /\ UNCHANGED <<data, hist, parsedOut, grouping, batchOut, tasks, fetching>>

\* the change listener of the select of filterName, while earlier
\* updateMapWithFilters() may still wait
SelectChanged(filterName, value) ==
  /\ page.filterControls
  /\ value \in page.options[filterName] \cup {<<>>}
  /\ StartUpdate([page EXCEPT !.currentFilters[filterName] = value, !.changes = @ + 1])

\* the strings of the calls that are not awaited: "California" and
\* "Cali-fornia" share the cache key "california"

CallLists ==
  { <<StrCaliHyphenFornia>>, <<StrCalifornia, StrCaliHyphenFornia>> }

BatchLists ==
  { <<>>, <<StrCaliHyphenFornia>>, <<StrCalifornia, <<>>, StrAtlantis, StrCalifornia>> }

\* ------------------------------------------------------------------------
\* fetchEmployees: the pages of the directory
\* ------------------------------------------------------------------------

\* const limit = 100
limit == 100

\* the pages a directory answers with before it runs out of records
MaxPages == 2

\* a value that is not a string, as a field of a raw record
NotAString == <<"undefined">>

\* sanitizeString: '' for a value that is not a string, else the trimmed
\* string (the strings of the model hold no null byte)
sanitizeString(value) == IF value = NotAString THEN <<>> ELSE Trim(value)

NullEmployee ==
  [isNull |-> TRUE, id |-> 0, firstName |-> <<>>, lastName |-> <<>>, jobTitle |-> <<>>,
   division |-> <<>>, location |-> <<>>, department |-> <<>>]

\* validateEmployee: null for a record that is no object or has no id
validateEmployee(emp) ==
  IF ~emp.isObject \/ ~emp.hasId THEN NullEmployee
  ELSE [isNull |-> FALSE, id |-> emp.id, firstName |-> sanitizeString(emp.firstName),
        lastName |-> sanitizeString(emp.lastName), jobTitle |-> sanitizeString(emp.jobTitle),
        division |-> sanitizeString(emp.division), location |-> sanitizeString(emp.location),
        department |-> sanitizeString(emp.department)]

NotNull(emp) == ~emp.isNull

\* rawEmployees.map(validateEmployee).filter(emp => emp !== null)
ValidEmployees(rawEmployees) == SelectSeq(MapSeq(rawEmployees, validateEmployee), NotNull)

\* record i of page p as the directory sends it; the records at the places
\* of gaps are null (gaps = 1) or lack an id (gaps = 2)
RawEmployee(p, i, gaps) ==
  [isObject |-> ~(gaps = 1 /\ i = 1), hasId |-> ~(gaps = 2 /\ i = 1),
   id |-> limit * (p - 1) + i, firstName |-> NotAString, lastName |-> NotAString,
   jobTitle |-> NotAString, division |-> NotAString,
   location |-> IF i % 2 = 0 THEN StrCaPadded ELSE NotAString, department |-> StrEng]

\* what a request can be answered with: the fetch rejects; a status that is
\* not ok; a body that is no JSON; the JSON null; an object without
\* employees; a list of raw records
Answers ==
  {"rejected", "notOk", "noJson", "null", "noList",
   "full", "fullNull", "fullNoId", "short", "shortNull", "empty"}

\* the list of raw records of an answer to the request of page p
RawList(answer, p) ==
  CASE answer = "full" -> [i \in 1..limit |-> RawEmployee(p, i, 0)]
    [] answer = "fullNull" -> [i \in 1..limit |-> RawEmployee(p, i, 1)]
    [] answer = "fullNoId" -> [i \in 1..limit |-> RawEmployee(p, i, 2)]
    [] answer = "short" -> [i \in 1..(limit - 1) |-> RawEmployee(p, i, 0)]
    [] answer = "shortNull" -> [i \in 1..2 |-> RawEmployee(p, i, 1)]
    [] OTHER -> <<>>

\* the request throws inside the try block: fetch or json() rejects, the
\* status is not ok, or data is null
Throws(answer) == answer \in {"rejected", "notOk", "noJson", "null"}

\* the directory: its answers to the requests of pages 1, 2, ...; past them
\* it has no records left
Servers == UNION { [1..n -> Answers] : n \in 0..MaxPages }

AnswerOf(server, p) == IF p \in DOMAIN server THEN server[p] ELSE "empty"

\* the loop ends on the number of valid records of the page
ReachedEndOfValid(rawEmployees, validEmployees) == Len(validEmployees) < limit

\* `if (rawEmployees.length < limit) hasMore = false`
ReachedEnd(rawEmployees, validEmployees) == Len(rawEmployees) < limit

\* fetchEmployees() is called
FetchEmployees(server) ==
  /\ fetching.pc = "none"
  /\ fetching' = [NoFetching EXCEPT !.pc = "loop", !.server = server]
  /\ UNCHANGED <<data, cache, hist, parsedOut, grouping, batchOut, page, pins, tasks, events>>

\* one round of the loop: the request of the page, its answer, and either
\* the catch block or the records of the page and the test for the end
FetchPage ==
  /\ fetching.pc = "loop"
  /\ \E answer \in {AnswerOf(fetching.server, fetching.page)} :
     \E requested \in {Append(fetching.requests, fetching.page)} :
       IF Throws(answer)
         THEN fetching' = [fetching EXCEPT !.pc = "done", !.requests = requested,
                                           !.returned = fetching.allEmployees]
       ELSE \E rawEmployees \in {RawList(answer, fetching.page)} :
            \E validEmployees \in {ValidEmployees(rawEmployees)} :
            \E allEmployees \in {fetching.allEmployees \o validEmployees} :
              IF ReachedEnd(rawEmployees, validEmployees)
                THEN fetching' = [fetching EXCEPT !.pc = "done", !.requests = requested,
                                                  !.hasMore = FALSE,
                                                  !.allEmployees = allEmployees,
                                                  !.returned = allEmployees]
                ELSE fetching' = [fetching EXCEPT !.requests = requested,
                                                  !.allEmployees = allEmployees,
                                                  !.page = @ + 1]
  /\ UNCHANGED <<data, cache, hist, parsedOut, grouping, batchOut, page, pins, tasks, events>>

\* the content script is started on another page
FetchAgain ==
  /\ fetching.pc = "done"
  /\ fetching' = NoFetching
  /\ UNCHANGED <<data, cache, hist, parsedOut, grouping, batchOut, page, pins, tasks, events>>

\* ------------------------------------------------------------------------
\* Specifications
\* ------------------------------------------------------------------------

\* a sequence of awaited geocode calls on one geocoder
Next ==
  \/ GeocoderInit
  \/ ClearCache
  \/ /\ Len(hist) < MaxCalls
     /\ \E locationStr \in Locations : Geocode(locationStr)

Spec == Init /\ [][Next]_vars

\* one call of the exported API on a new geocoder, over free-text inputs
NextResolve ==
  \/ GeocoderInit
  \/ /\ hist = <<>> /\ ~parsedOut.called
     /\ \E locationStr \in FreeTexts : Geocode(locationStr)
  \/ /\ hist = <<>> /\ ~parsedOut.called
     /\ \E locationStr \in FreeTexts : ParseLocation(locationStr)

SpecResolve == Init /\ [][NextResolve]_vars

\* one grouping of an employee list or one batch, on a new geocoder or after
\* one geocode
NextGroup ==
  \/ GeocoderInit
  \/ /\ hist = <<>> /\ ~grouping.called /\ ~batchOut.called
     /\ \E locationStr \in PriorLocations : Geocode(locationStr)
  \/ /\ ~grouping.called /\ ~batchOut.called
     /\ \E employeeList \in EmployeeLists : GroupEmployees(employeeList)
  \/ /\ ~grouping.called /\ ~batchOut.called
     /\ \E employeeList \in EmployeeLists : GeocodeBatch(MapSeq(employeeList, Location))

SpecGroup == Init /\ [][NextGroup]_vars

\* a sequence of awaited geocode calls, each on the name of an entry
NextNames ==
  \/ GeocoderInit
  \/ /\ Len(hist) < MaxCalls
     /\ \E locationStr \in EntryNames : Geocode(locationStr)

SpecNames == Init /\ [][NextNames]_vars

\* render passes on one map, and the pointer moving over the pins
NextPins ==
  \/ ~pins.ready /\ MapInit
  \/ \E locations \in PinLocationLists : RenderPins(locations)
  \/ \E i \in 1..(MaxPins + 1) : MouseEnter(i)
  \/ \E i \in 1..(MaxPins + 1) : MouseLeave(i)

SpecPins == Init /\ [][NextPins]_vars

\* the directory page: loads, clicks on the toggle button, filter changes
NextPage ==
  \/ PageStart
  \/ \E rawEmployees \in StaffLists : PageLoad(rawEmployees)
  \/ ToggleMap
  \/ /\ page.changes < MaxChanges
     /\ \E value \in Departments \cup {<<>>} : FilterChange("department", value)
  \/ /\ page.changes < MaxChanges
     /\ FilterReset
  \/ Reload

SpecPage == Init /\ [][NextPage]_vars

\* the filter controls of a loaded directory page: typing a name, choosing
\* an option of a select, the reset button
NextFilters ==
  \/ PageStart
  \/ \E rawEmployees \in FilterDirectories : PageLoad(rawEmployees)
  \/ /\ page.changes < MaxEdits
     /\ \E value \in NameTexts : NameInput(value)
  \/ /\ page.changes < MaxEdits
     /\ \E filterName \in Range(SelectFilters) :
          \E value \in page.options[filterName] \cup {<<>>} : FilterChange(filterName, value)
  \/ /\ page.changes < MaxEdits
     /\ FilterReset

SpecFilters == Init /\ [][NextFilters]_vars

\* geocode and geocodeBatch calls whose callers do not await them
NextAsync ==
  \/ ClearCache
  \/ \E locations \in CallLists :
       /\ NextTask + Len(locations) - 1 <= MaxTasks
       /\ GeocodeAll(locations)
  \/ /\ NextTask <= MaxTasks
     /\ \E locations \in BatchLists : StartBatch(locations)
  \/ \E i \in DOMAIN tasks, loadOk \in BOOLEAN : Resume(i, loadOk)

SpecAsync == Init /\ [][NextAsync]_vars

\* the directory page with filter changes that follow each other while the
\* geocoding of earlier ones waits
NextOverlap ==
  \/ PageStart
  \/ \E rawEmployees \in FilterDirectories : PageLoad(rawEmployees)
  \/ /\ NextTask <= MaxTasks
     /\ \E filterName \in Range(SelectFilters) :
          \E value \in page.options[filterName] \cup {<<>>} : SelectChanged(filterName, value)
  \/ \E i \in DOMAIN tasks, loadOk \in BOOLEAN : Resume(i, loadOk)

SpecOverlap == Init /\ [][NextOverlap]_vars

\* fetchEmployees() against every directory of at most MaxPages answers
NextFetch ==
  \/ \E server \in Servers : FetchEmployees(server)
  \/ FetchPage
  \/ FetchAgain

SpecFetch == Init /\ [][NextFetch]_vars

\* ------------------------------------------------------------------------
\* Properties
\* ------------------------------------------------------------------------

Calls == { hist[i] : i \in DOMAIN hist }

SubdivisionEntries ==
  Range(Cities.states.US) \cup Range(Cities.states.CA) \cup Range(Cities.states.AU)
CountryEntries == Range(Cities.countries)

IsSubdivisionToken(tok) == \E e \in SubdivisionEntries : EntryMatches(e, normalize(tok))
IsCountryToken(tok) == \E e \in CountryEntries : EntryMatches(e, normalize(tok))

\* ret carries the coordinates of a subdivision (a country) that tok matches
IsSubdivisionOf(ret, tok) ==
  /\ ~ret.isNull
  /\ \E e \in SubdivisionEntries :
       EntryMatches(e, normalize(tok)) /\ ret.lat = e.lat /\ ret.lng = e.lng
IsCountryOf(ret, tok) ==
  /\ ~ret.isNull
  /\ \E e \in CountryEntries :
       EntryMatches(e, normalize(tok)) /\ ret.lat = e.lat /\ ret.lng = e.lng

\* two different tokens, one matching a subdivision and one matching a country
HasSubdivisionAndCountry(parts) ==
  \E i, j \in DOMAIN parts :
    i # j /\ IsSubdivisionToken(parts[i]) /\ IsCountryToken(parts[j])

FirstIndex(parts, P(_)) ==
  CHOOSE i \in DOMAIN parts : P(parts[i]) /\ \A m \in 1..(i - 1) : ~P(parts[m])

\* C1 as stated: for every string with a subdivision token and a country
\* token, in whichever order, geocode returns the subdivision's coordinates
\* and not the country's.
C1_SubdivisionInAnyOrder ==
  \A h \in Calls :
    (h.searched /\ HasSubdivisionAndCountry(h.parts)) =>
      \E i \in DOMAIN h.parts : IsSubdivisionOf(h.ret, h.parts[i])

\* C1 as amended: for every string with a subdivision token and a country
\* token, the loop of geocode yields the first subdivision token's
\* coordinates when no token before it matches a country, and the
\* coordinates of the first country token when one comes before it.
C1_FirstTokenDecides ==
  \A h \in Calls :
    (h.searched /\ HasSubdivisionAndCountry(h.parts)) =>
      LET s == FirstIndex(h.parts, IsSubdivisionToken) IN
        IF \E m \in 1..(s - 1) : IsCountryToken(h.parts[m])
          THEN IsCountryOf(h.ret, h.parts[FirstIndex(h.parts, IsCountryToken)])
               /\ ~\E i \in DOMAIN h.parts : IsSubdivisionOf(h.ret, h.parts[i])
          ELSE IsSubdivisionOf(h.ret, h.parts[s])

\* a call on a string whose country token comes before its subdivision token
C1_Witness ==
  \E h \in Calls :
    /\ h.searched /\ HasSubdivisionAndCountry(h.parts)
    /\ IsCountryToken(h.parts[1]) /\ ~IsSubdivisionToken(h.parts[1])
    /\ IsCountryOf(h.ret, h.parts[1])

\* the tiers in the order geocode tries them, and what it appends to the name
TierEntries == <<Cities.states.US, Cities.states.CA, Cities.states.AU, Cities.countries>>
TierSuffix == <<SuffixUnitedStates, SuffixCanada, SuffixAustralia, <<>> >>

PairMatches(parts, n, t) ==
  \E i \in DOMAIN TierEntries[t] : EntryMatches(TierEntries[t][i], normalize(parts[n]))

MatchingPairs(parts) ==
  { p \in (DOMAIN parts) \X (DOMAIN TierEntries) : PairMatches(parts, p[1], p[2]) }

PairBefore(p, q) == p[1] < q[1] \/ (p[1] = q[1] /\ p[2] <= q[2])

FirstPair(parts) ==
  CHOOSE p \in MatchingPairs(parts) : \A q \in MatchingPairs(parts) : PairBefore(p, q)

FirstEntryOf(parts, p) ==
  LET entries == TierEntries[p[2]]
      i == CHOOSE i \in DOMAIN entries :
             /\ EntryMatches(entries[i], normalize(parts[p[1]]))
             /\ \A j \in 1..(i - 1) : ~EntryMatches(entries[j], normalize(parts[p[1]]))
  IN entries[i]

\* C2: the loop of geocode is token-major: the value is the entry of the
\* first (token, tier) pair, in token order and then in the order US, CA,
\* AU, countries, that matches by normalized name or lower-cased code; it is
\* none exactly when no pair matches.
C2_TokenMajorFirstMatch ==
  \A h \in Calls :
    /\ h.searched =>
         IF MatchingPairs(h.parts) = {} THEN h.ret.isNull
         ELSE LET p == FirstPair(h.parts)
                  e == FirstEntryOf(h.parts, p)
              IN h.ret = [isNull |-> FALSE, lat |-> e.lat, lng |-> e.lng,
                          name |-> e.name \o TierSuffix[p[2]], displayName |-> e.name]
    /\ (h.loaded /\ ~h.hit /\ ~h.searched) => h.ret.isNull

\* a call whose first token matches nothing and whose second token matches
\* in a later tier than the first
C2_Witness ==
  \E h \in Calls :
    /\ h.searched /\ Len(h.parts) >= 2 /\ MatchingPairs(h.parts) # {}
    /\ FirstPair(h.parts)[1] = 2 /\ FirstPair(h.parts)[2] > 1
    /\ ~h.ret.isNull

\* what geocode returns for locationStr on a geocoder whose cache is empty
FreshValue(locationStr) ==
  IF locationStr = <<>> \/ Parsed(locationStr).isNull THEN NoResult
  ELSE Searched("cities", Parsed(locationStr).parts)

\* C3: with the document loaded, the value geocode returns for a string is
\* the one it returns on an empty cache: it does not depend on the strings
\* resolved, and cached, before it.
C3_IndependentOfEarlierCalls ==
  \A h \in Calls : h.loaded => h.ret = FreshValue(h.arg)

\* C4: with the document loaded, two calls between cache clears whose inputs
\* have the same normalize() value return the same value, and the loop runs
\* at most once for that key.
C4_SameKeySameValue ==
  \A i, j \in DOMAIN hist :
    (/\ i < j
     /\ hist[i].loaded
     /\ hist[i].arg # <<>> /\ hist[j].arg # <<>>
     /\ normalize(hist[i].arg) = normalize(hist[j].arg)) =>
      /\ hist[j].ret = hist[i].ret
      /\ ~(hist[i].searched /\ hist[j].searched)

\* the members of the groups, as (group, position) slots
MemberSlots ==
  UNION { { <<g, k>> : k \in DOMAIN grouping.groups[g].employees } :
          g \in DOMAIN grouping.groups }

SlotsOf(employee) ==
  { m \in MemberSlots : grouping.groups[m[1]].employees[m[2]] = employee }

GroupedEmployees == Range(grouping.employeeList)

\* the batch geocoded the employee's location to a value that is not none
Resolves(employee) ==
  /\ employee.location # <<>>
  /\ \E r \in Range(grouping.calls) : r.arg = employee.location /\ ~r.ret.isNull

CoordsOf(employee) ==
  LET r == CHOOSE r \in Range(grouping.calls) : r.arg = employee.location
  IN [lat |-> r.ret.lat, lng |-> r.ret.lng]

SameGroup(a, b) ==
  \E g \in DOMAIN grouping.groups :
    /\ a \in Range(grouping.groups[g].employees)
    /\ b \in Range(grouping.groups[g].employees)

SanFranciscoA == [lat |-> 377749, lng |-> -1224194]
SanFranciscoB == [lat |-> 377751, lng |-> -1224193]
SanFranciscoC == [lat |-> 377712, lng |-> -1224171]

\* C5 as stated: two people resolved to (37.7749, -122.4194) and to
\* (37.7751, -122.4193) get the same grouping key and are in the same group.
C5_NearbyPairShareGroup ==
  grouping.called =>
    \A a, b \in GroupedEmployees :
      (/\ Resolves(a) /\ Resolves(b)
       /\ CoordsOf(a) = SanFranciscoA /\ CoordsOf(b) = SanFranciscoB) =>
        GroupKey(CoordsOf(a)) = GroupKey(CoordsOf(b)) /\ SameGroup(a, b)

\* C5 as amended: people whose coordinates round to the same two decimals,
\* like (37.7749, -122.4194) and (37.7712, -122.4171), get the same key and
\* are in the same group; (37.7749, -122.4194) and (37.7751, -122.4193)
\* round to 37.77 and 37.78 and are in different groups.
C5_RoundedPairShareGroup ==
  grouping.called =>
    \A a, b \in GroupedEmployees :
      (Resolves(a) /\ Resolves(b)) =>
        /\ SameGroup(a, b) <=> GroupKey(CoordsOf(a)) = GroupKey(CoordsOf(b))
        /\ (CoordsOf(a) = SanFranciscoA /\ CoordsOf(b) = SanFranciscoC) => SameGroup(a, b)
        /\ (CoordsOf(a) = SanFranciscoA /\ CoordsOf(b) = SanFranciscoB) => ~SameGroup(a, b)

\* one list with a person at each of the three coordinates
C5_Witness ==
  /\ grouping.called
  /\ \E a, b, c \in GroupedEmployees :
       /\ Resolves(a) /\ Resolves(b) /\ Resolves(c)
       /\ CoordsOf(a) = SanFranciscoA
       /\ CoordsOf(b) = SanFranciscoB
       /\ CoordsOf(c) = SanFranciscoC
       /\ SameGroup(a, c) /\ ~SameGroup(a, b)

\* only whitespace, commas and hyphens are left of the string after the
\* work-arrangement phrases are removed
OnlyDelimitersLeft(locationStr) ==
  LET left == Cleaned(locationStr)
  IN \A i \in DOMAIN left : IsSpace(left[i]) \/ IsDelimiter(left[i])

\* C6 as stated: parseLocation returns none only for the empty string, and
\* at least one token for every other string.
C6_NoneOnlyForEmpty ==
  parsedOut.called =>
    /\ parsedOut.out.isNull <=> parsedOut.arg = <<>>
    /\ ~parsedOut.out.isNull => Len(parsedOut.out.parts) >= 1

\* C6 as amended: parseLocation returns none exactly when the string is
\* empty or only whitespace, commas and hyphens are left of it after the
\* phrases are removed; otherwise it returns at least one token, every token
\* non-empty, trimmed and free of commas and hyphens.
C6_NoneWhenOnlyDelimitersLeft ==
  parsedOut.called =>
    /\ parsedOut.out.isNull <=> OnlyDelimitersLeft(parsedOut.arg)
    /\ ~parsedOut.out.isNull =>
         /\ Len(parsedOut.out.parts) >= 1
         /\ parsedOut.out.original = parsedOut.arg
         /\ \A k \in DOMAIN parsedOut.out.parts :
              LET part == parsedOut.out.parts[k] IN
                /\ part # <<>>
                /\ ~IsSpace(part[1]) /\ ~IsSpace(part[Len(part)])
                /\ \A i \in DOMAIN part : ~IsDelimiter(part[i])

\* a string with letters in it for which parseLocation returns none
C6_Witness ==
  /\ parsedOut.called
  /\ parsedOut.out.isNull
  /\ \E i \in DOMAIN parsedOut.arg : parsedOut.arg[i] \in UpperChars \cup LowerChars

\* C7: a person is in no group when the location is empty or does not
\* resolve, and in exactly one group otherwise; the group sizes add up to
\* the number of people whose location resolves.
C7_GroupsHoldExactlyTheResolved ==
  grouping.called =>
    /\ \A e \in GroupedEmployees :
         Cardinality(SlotsOf(e)) = IF Resolves(e) THEN 1 ELSE 0
    /\ \A m \in MemberSlots :
         grouping.groups[m[1]].employees[m[2]] \in GroupedEmployees
    /\ Cardinality(MemberSlots) =
         Cardinality({ n \in DOMAIN grouping.employeeList : Resolves(grouping.employeeList[n]) })

\* a list with an empty location, an unresolved one and a resolved one
C7_Witness ==
  /\ grouping.called
  /\ \E a, b, c \in GroupedEmployees :
       /\ a.location = <<>>
       /\ b.location # <<>> /\ ~Resolves(b)
       /\ Resolves(c)
  /\ Cardinality(MemberSlots) = 1

ScenarioRan ==
  /\ grouping.called
  /\ grouping.employeeList = Employees(ScenarioLocations)
  /\ grouping.cacheWasEmpty
  /\ \A r \in Range(grouping.calls) : r.loaded

GroupOf(g) ==
  [lat |-> grouping.groups[g].lat, lng |-> grouping.groups[g].lng,
   ids |-> { grouping.groups[g].employees[k].id : k \in DOMAIN grouping.groups[g].employees }]

\* C8: from an empty cache and with the document loaded, the four people
\* "California - Work From Home", "CA", "Remote - Argentina" and "Ontario"
\* make three groups: California's with the first two, Argentina's with the
\* third and Ontario's with the fourth.
C8_ScenarioThreeGroups ==
  ScenarioRan =>
    /\ Len(grouping.groups) = 3
    /\ { GroupOf(g) : g \in DOMAIN grouping.groups } =
         { [lat |-> 377749, lng |-> -1224194, ids |-> {1, 2}],
           [lat |-> -384161, lng |-> -636167, ids |-> {3}],
           [lat |-> 512538, lng |-> -853232, ids |-> {4}] }
    /\ Len(grouping.groups[1].employees) = 2

C8_Witness == ScenarioRan /\ Len(grouping.groups) = 3

\* the work-arrangement decorations around a name
DecoWorkFromHome == <<" ", "-", " ", "W", "o", "r", "k", " ", "F", "r", "o", "m", " ", "H", "o", "m", "e">>
DecoWFH == <<" ", "-", " ", "W", "F", "H">>
DecoHomeOffice == <<" ", "-", " ", "H", "o", "m", "e", " ", "O", "f", "f", "i", "c", "e">>
DecoOffice == <<" ", "-", " ", "O", "f", "f", "i", "c", "e">>
DecoRemoteSuffix == <<" ", "-", " ", "R", "e", "m", "o", "t", "e">>
DecoRemotePrefix == <<"R", "e", "m", "o", "t", "e", " ", "-", " ">>

Decorated(x) ==
  { x \o DecoWorkFromHome, x \o DecoWFH, x \o DecoHomeOffice, x \o DecoOffice,
    x \o DecoRemoteSuffix, DecoRemotePrefix \o x }

\* s is x with one decoration, in any letter case
IsDecorationOf(s, x) == \E t \in Decorated(x) : ToLowerCase(s) = ToLowerCase(t)

GazetteerNames == { e.name : e \in SubdivisionEntries \cup CountryEntries }

\* C9: with the document loaded, geocode of a gazetteer name with one
\* decoration returns the value geocode of the name alone returns.
C9_DecorationIsTransparent ==
  \A i, j \in DOMAIN hist :
    (/\ hist[i].loaded /\ hist[j].loaded
     /\ hist[i].arg \in GazetteerNames
     /\ IsDecorationOf(hist[j].arg, hist[i].arg)) =>
      hist[j].ret = hist[i].ret

C11_NormalizeIdempotent ==
  \A h \in Calls : h.arg # <<>> => normalize(h.key) = h.key

\* a call whose string normalize changed, to a key with whitespace inside
C11_Witness ==
  \E h \in Calls :
    /\ h.arg # <<>> /\ h.key # h.arg /\ h.key # <<>>
    /\ \E i \in DOMAIN h.key : IsSpace(h.key[i])

\* the load attempted by call i of the history failed: the call got past the
\* cache and returned with data still null
LoadFailedAt(i) == hist[i].arg # <<>> /\ ~hist[i].hit /\ ~hist[i].loaded

\* C13: once the load of the document has failed, every later geocode call
\* returns none, and the load is not attempted again.
C13_FailedLoadIsFinal ==
  \A i, j \in DOMAIN hist :
    (i < j /\ LoadFailedAt(i)) =>
      /\ hist[j].ret.isNull
      /\ ~hist[j].loaded

\* the distinct non-empty strings given to geocodeBatch
BatchInputs == Range(batchOut.locations) \ {<<>>}

\* the value geocode returned for the string in the batch
BatchValue(location) ==
  (CHOOSE r \in Range(batchOut.calls) : r.arg = location).ret

\* C15: the mapping geocodeBatch returns has as keys exactly the distinct
\* non-empty input strings whose geocode value is not none, each under the
\* string as given and mapped to that value; geocode is called once for each
\* distinct non-empty string.
C15_BatchMapsTheResolved ==
  batchOut.called =>
    /\ { batchOut.calls[i].arg : i \in DOMAIN batchOut.calls } = BatchInputs
    /\ Len(batchOut.calls) = Cardinality(BatchInputs)
    /\ DOMAIN batchOut.geocoded = { l \in BatchInputs : ~BatchValue(l).isNull }
    /\ \A l \in DOMAIN batchOut.geocoded :
         batchOut.geocoded[l] = BatchValue(l) /\ ~batchOut.geocoded[l].isNull

\* a batch with an empty string, one that resolves under a string that is
\* not its normalized form, and one that does not resolve
C15_Witness ==
  /\ batchOut.called
  /\ <<>> \in Range(batchOut.locations)
  /\ \E l \in DOMAIN batchOut.geocoded : l # normalize(l)
  /\ \E l \in BatchInputs : l \notin DOMAIN batchOut.geocoded

\* the value the batch of the grouping returned for the employee's location
GeocodedFor(employee) == grouping.geocoded[employee.location]

\* C16: a group's lat, lng and name are those of the first employee put in
\* it (the name the resolver's, else that employee's location string); every
\* later employee of the bucket is appended to the members, in list order,
\* and changes none of the three.
C16_FirstEmployeeAnchorsGroup ==
  grouping.called =>
    \A g \in DOMAIN grouping.groups :
      LET group == grouping.groups[g]
          first == group.employees[1]
      IN /\ group.employees # <<>>
         /\ group.lat = GeocodedFor(first).lat
         /\ group.lng = GeocodedFor(first).lng
         /\ group.name = IF GeocodedFor(first).name # <<>>
                           THEN GeocodedFor(first).name ELSE first.location
         /\ \A k \in DOMAIN group.employees :
              /\ GroupKey(GeocodedFor(group.employees[k])) = group.key
              /\ \A j \in 1..(k - 1) : group.employees[j].id < group.employees[k].id

\* a group whose second member resolved to other coordinates than its first
C16_Witness ==
  /\ grouping.called
  /\ \E g \in DOMAIN grouping.groups :
       /\ Len(grouping.groups[g].employees) >= 2
       /\ GeocodedFor(grouping.groups[g].employees[2]).lat
            # GeocodedFor(grouping.groups[g].employees[1]).lat
       /\ grouping.groups[g].lat = GeocodedFor(grouping.groups[g].employees[1]).lat


\* ------------------------------------------------------------------------
\* The pins of a render pass
\* ------------------------------------------------------------------------

\* the member counts a group can have next to the groups of the last pass
PinCounts == 1..(MaxMembers + 1)

\* the pins of the last render pass, by index
Rendered == pins.rendered

\* C17: for a fixed maxCount the radius does not decrease as the count grows,
\* and the radius of the count maxCount is strictly greater than the radius
\* of the count 1 whenever maxCount > 1; this holds of getPinRadius under
\* the maxCount of every render pass, and of the radii the pass gave its pins
C17_RadiusNonDecreasing ==
  pins.maxCount >= 1 =>
    /\ \A i, j \in DOMAIN Rendered :
         Rendered[i].count <= Rendered[j].count => Rendered[i].r <= Rendered[j].r
    /\ \A i, j \in DOMAIN Rendered :
         (pins.maxCount > 1 /\ Rendered[i].count = 1 /\ Rendered[j].count = pins.maxCount)
           => Rendered[i].r < Rendered[j].r
    /\ \A a, b \in PinCounts :
         a <= b => getPinRadius(a, pins.maxCount) <= getPinRadius(b, pins.maxCount)
    /\ pins.maxCount > 1 =>
         getPinRadius(pins.maxCount, pins.maxCount) > getPinRadius(1, pins.maxCount)

\* a pass drew a pin of one person, a larger pin of more people and a still
\* larger pin of the largest group
C17_Witness ==
  /\ pins.called
  /\ \E i, j, k \in DOMAIN Rendered :
       /\ Rendered[i].count = 1
       /\ Rendered[i].count < Rendered[j].count
       /\ Rendered[j].count < Rendered[k].count
       /\ Rendered[k].count = pins.maxCount
       /\ Rendered[i].r < Rendered[j].r
       /\ Rendered[j].r < Rendered[k].r

WrapperExists == page.pc # "none"

\* C19: after any clicks on the toggle the stored item 'bamboo-map-collapsed'
\* is the string of the wrapper's collapsed state, and the next page load
\* starts collapsed exactly when the stored item is 'true', which is exactly
\* when the page before was left collapsed
C19_StoredItemIsCollapsedState ==
  /\ page.clicked =>
       /\ page.stored \in {"true", "false"}
       /\ page.stored = "true" <=> page.collapsed
  /\ (WrapperExists /\ ~page.clicked) =>
       /\ page.startedCollapsed <=> page.stored = "true"
       /\ page.collapsed <=> page.startedCollapsed
  /\ (WrapperExists /\ page.reloaded) =>
       (page.startedCollapsed <=> page.leftCollapsed)

\* a page left expanded after clicks, so that the item is 'false', and a
\* page loaded after a page that was left collapsed
C19_Witness ==
  /\ page.reloaded
  /\ WrapperExists
  /\ page.startedCollapsed
  /\ page.leftCollapsed
  /\ page.clicked
  /\ ~page.collapsed
  /\ page.stored = "false"

RECURSIVE SumFrom(_, _)
SumFrom(counts, n) == IF n > Len(counts) THEN 0 ELSE counts[n] + SumFrom(counts, n + 1)

\* the members of the groups of the last render pass, all together
RenderedMembers == SumFrom(pins.counts, 1)

\* the groups of the last render pass
RenderedGroups == Len(pins.counts)

\* C14: after the initial render and after every filter change, the employee
\* count of the stats is the total number of members of the rendered groups
\* and the location count is the number of rendered groups.
C14_StatsCountRenderedGroups ==
  (page.stats.shown /\ page.threw = "none") =>
    /\ page.stats.employees = RenderedMembers
    /\ page.stats.locations = RenderedGroups

\* init() found the wrapper collapsed, with employees fetched and grouped on
\* the packaged document
LoadedCollapsedWithData ==
  /\ page.pc = "done"
  /\ page.loaded
  /\ page.loadedCollapsed
  /\ data = "cities"

\* C20: when the page loads collapsed with employee data, the stats are
\* updated while the map is collapsed, and the first expansion initialises
\* the map and renders the pins.
C20_CollapsedLoadInitialisesOnExpansion ==
  LoadedCollapsedWithData =>
    /\ page.stats = updateFilterCount(totalEmployees(page.locationGroups),
                                      Len(page.locationGroups))
    /\ page.expanded =>
         /\ page.mapInitialized
         /\ pins.called
         /\ pins.counts = MapSeq(page.locationGroups, MemberCount)

\* C12: no exception propagates out of page initialisation, nor out of the
\* geocode, geocodeBatch and groupEmployeesByLocation it and the filter
\* listeners call, whatever the employees, the document (one without
\* countries, one with an entry without code) and the stored collapsed state.
C12_NoExceptionPropagates == page.threw = "none"

\* ------------------------------------------------------------------------
\* The names of the gazetteer
\* ------------------------------------------------------------------------

\* the value is the place of an entry that the string matches by its name or
\* its code
IsEntryFor(ret, locationStr) ==
  \E e \in Range(Cities.countries) \cup SubdivisionEntries :
    /\ EntryMatches(e, Normalized(locationStr))
    /\ ret.lat = e.lat
    /\ ret.lng = e.lng
    /\ ret.displayName = e.name

\* C22: every entry of the gazetteer is recognised by its own name: with the
\* document loaded, geocode(e.name) returns the place of an entry that
\* matches the name, also when the name contains a hyphen or a comma.
C22_EntryFoundByItsName ==
  \A h \in Calls :
    (h.arg \in EntryNames /\ h.loaded) =>
      /\ ~h.ret.isNull
      /\ IsEntryFor(h.ret, h.arg)

\* ------------------------------------------------------------------------
\* Cascading filters
\* ------------------------------------------------------------------------

\* the distinct non-empty values of field among the employees that match all
\* the other filters of pg
OfferedBy(pg, field) ==
  getUniqueValues(field, filterEmployeesExcluding(pg.allEmployeesData, pg.currentFilters, field))

\* a filter change has been processed to its end
FilterProcessed == page.changes > 0 /\ page.threw = "none"

\* C21: after every filter change has been processed, each of the three
\* selects offers exactly the distinct non-empty values of its field among
\* the employees that match all the other filters as they stand, and each
\* filter value is empty or one of the options of its select
C21_DropdownsFollowFilters ==
  FilterProcessed =>
    \A field \in Range(SelectFilters) :
      /\ page.options[field] = OfferedBy(page, field)
      /\ page.currentFilters[field] = <<>>
           \/ page.currentFilters[field] \in page.options[field]

\* the second half of C21 alone
FilterValuesAreOptions ==
  FilterProcessed =>
    \A field \in Range(SelectFilters) :
      page.currentFilters[field] = <<>> \/ page.currentFilters[field] \in page.options[field]


\* ------------------------------------------------------------------------
\* The cache under calls that overlap
\* ------------------------------------------------------------------------

\* C23: between calls of clearCache the cache is append-only: a step that
\* is not a full clear keeps every key of the cache and its value, whatever
\* geocode and geocodeBatch calls are under way
C23_CacheAppendOnly ==
  [][ \/ cache' = EmptyCache
      \/ \A key \in DOMAIN cache :
           key \in DOMAIN cache' /\ cache'[key] = cache[key] ]_vars

\* ------------------------------------------------------------------------
\* geocodeBatch, one string after another
\* ------------------------------------------------------------------------

\* the geocodeBatch calls of the log, and those that have returned
BatchCalls == { i \in DOMAIN events : events[i].type = "call" }
Returned(id) == \E i \in DOMAIN events : events[i].task = id /\ events[i].type = "return"

\* the starts and ends of the geocode calls of call id, in the order they
\* happened
GeocodesOf(id) ==
  LET OfCall(e) == e.task = id /\ e.type \in {"start", "end"}
  IN SelectSeq(events, OfCall)

\* C24: geocodeBatch calls geocode once per distinct non-empty string of its
\* input and never on anything else, and one call after another: each
\* geocode has ended before the next one starts
C24_BatchOnePerStringInTurn ==
  \A c \in BatchCalls :
    LET locations == events[c].arg
        calls == GeocodesOf(events[c].task)
        starts == { k \in DOMAIN calls : calls[k].type = "start" }
    IN /\ \A k \in DOMAIN calls :
            /\ calls[k].type = (IF k % 2 = 1 THEN "start" ELSE "end")
            /\ k % 2 = 0 => calls[k].arg = calls[k - 1].arg
       /\ \A j, k \in starts : calls[j].arg = calls[k].arg => j = k
       /\ \A k \in starts : calls[k].arg \in Range(locations) \ {<<>>}
       /\ Returned(events[c].task) =>
            /\ Len(calls) % 2 = 0
            /\ { calls[k].arg : k \in starts } = Range(locations) \ {<<>>}

\* a geocodeBatch on an input with a repeated and an empty string has
\* returned after two geocode calls, and a call of another caller ended
\* between the start and the end of one of them
C24_Witness ==
  \E c \in BatchCalls :
    /\ Returned(events[c].task)
    /\ Len(events[c].arg) > Cardinality(Range(events[c].arg) \ {<<>>})
    /\ <<>> \in Range(events[c].arg)
    /\ Len(GeocodesOf(events[c].task)) = 4
    /\ \E i, j, k \in DOMAIN events :
         /\ i < j /\ j < k
         /\ events[i].task = events[c].task /\ events[i].type = "start"
         /\ events[k].task = events[c].task /\ events[k].type = "end"
         /\ events[k].arg = events[i].arg
         /\ events[j].task # events[c].task /\ events[j].type = "end"

\* ------------------------------------------------------------------------
\* Filter changes in quick succession
\* ------------------------------------------------------------------------

\* C25: once every updateMapWithFilters() started by the filter changes has
\* completed, the pins and the stats on display are those computed from the
\* current filter values
C25_DisplayFollowsCurrentFilters ==
  (page.changes > 0 /\ tasks = <<>>) =>
    /\ page.shownFilters = page.currentFilters
    /\ page.stats.employees = Len(filterEmployees(page.allEmployeesData, page.currentFilters))

\* ------------------------------------------------------------------------
\* The pages fetchEmployees asks for
\* ------------------------------------------------------------------------

\* the answer to the request of page p is a list of raw records
Received(server, p) == ~Throws(AnswerOf(server, p))

\* the number of raw records of the answer to the request of page p
RawCount(server, p) == Len(RawList(AnswerOf(server, p), p))

RECURSIVE ValidOfPages(_, _, _)
\* the records with an id of the pages p..last that were received, in page
\* order and in the order of each page
ValidOfPages(server, p, last) ==
  IF p > last THEN <<>>
  ELSE (IF Received(server, p)
          THEN LET raw == RawList(AnswerOf(server, p), p)
                   WithId(emp) == emp.isObject /\ emp.hasId
               IN SelectSeq(raw, WithId)
          ELSE <<>>)
       \o ValidOfPages(server, p + 1, last)

\* C26: fetchEmployees requests the pages 1, 2, 3, ... in order; it goes on
\* after a page exactly when the page was received with at least 100 raw
\* records; it never rejects; and it returns the validated records of the
\* pages received up to the page it stopped at, in page order
C26_PagesInOrderUntilShortOrFailed ==
  LET requests == fetching.requests
      server == fetching.server
      last == Len(requests)
  IN /\ \A i \in DOMAIN requests : requests[i] = i
     /\ \A i \in 1..(last - 1) : Received(server, i) /\ RawCount(server, i) >= limit
     /\ ~fetching.rejected
     /\ fetching.pc = "loop" =>
          \A i \in DOMAIN requests : Received(server, i) /\ RawCount(server, i) >= limit
     /\ fetching.pc = "done" =>
          /\ last >= 1
          /\ ~Received(server, last) \/ RawCount(server, last) < limit
          /\ Len(fetching.returned) = Len(ValidOfPages(server, 1, last))
          /\ \A k \in DOMAIN fetching.returned :
               /\ fetching.returned[k].id = ValidOfPages(server, 1, last)[k].id
               /\ ~fetching.returned[k].isNull

\* fetchEmployees has returned after a full page with a record that
\* validation dropped and a second page that was short
C26_Witness ==
  /\ fetching.pc = "done"
  /\ fetching.requests = <<1, 2>>
  /\ AnswerOf(fetching.server, 1) \in {"fullNull", "fullNoId"}
  /\ AnswerOf(fetching.server, 2) = "short"
  /\ Len(fetching.returned) = 2 * limit - 2

====
